---- MODULE Spec2Model ----
(***************************************************************************)
(* Model of the monitoring core of the Not-Yet platform:                   *)
(*   src/monitoring/metrics_collector.py  (MetricsCollector)               *)
(*   src/monitoring/middleware.py         (MonitoringMiddleware,           *)
(*                                         HealthCheckManager)             *)
(*   src/monitoring/dashboard.py          (MonitoringDashboard)            *)
(*   src/kali_server.py                   (/health, /metrics)              *)
(*                                                                         *)
(* Time is an integer clock whose unit is one hour.  Strings that the code *)
(* searches, splits or builds (metric names, name patterns, tag values)    *)
(* are sequences of one-character strings.  A `with self.lock:` block      *)
(* neither blocks nor nests, so each such block is one atomic action;      *)
(* everything a method does outside the lock (building the Metric,         *)
(* computing a cutoff) is a separate step that other threads interleave    *)
(* with.                                                                   *)
(*                                                                         *)
(* The specifications share the variables:                                 *)
(*   Spec        two writers, a reader and the collection thread on one    *)
(*               store, interleaved at the lock boundaries;                *)
(*   SpecQuery   one caller making whole calls, over all the arguments of  *)
(*               get_metrics;                                              *)
(*   SpecAlert   add_metric under configured alert thresholds;             *)
(*   SpecHealth  register_check and run_all_checks on a HealthCheckManager *)
(*               and the store it writes to;                               *)
(*   SpecProbe   _check_server_health over the answers of /health;         *)
(*   SpecLoop    start_collection, stop_collection and the threads running *)
(*               _collection_loop; SpecLoopFair adds a fair scheduler;     *)
(*   SpecHttp    the request hooks of MonitoringMiddleware;                *)
(*   SpecExport  export_metrics, /metrics and get_summary_stats after      *)
(*               whole add_metric calls;                                   *)
(*   SpecJson    _export_json step by step beside a writer and a probe;    *)
(*   SpecHealthEndpoint  GET /health over the registered checks;           *)
(*   SpecDashboard  the read paths of the collector and the dashboard      *)
(*               (src/monitoring/dashboard.py);                            *)
(*   SpecShutdown  add_metric around start_collection and stop_collection; *)
(*   SpecLoopDisabled  the collection loop over a configuration with a     *)
(*               disabled server;                                          *)
(*   SpecSingleton  concurrent first calls of get_metrics_collector;       *)
(*   SpecReinit  init_metrics_collector beside the components that hold    *)
(*               a collector;                                              *)
(*   SpecTool    functions wrapped by monitor_tool_execution;              *)
(*   SpecRecord  record_request called by two threads, statement by        *)
(*               statement;                                                *)
(*   SpecLock    the methods of one collector as sequences of lock         *)
(*               operations and shared accesses; SpecLockFair adds a       *)
(*               fair scheduler.                                           *)
(***************************************************************************)
EXTENDS Integers, Sequences, FiniteSets, TLC

\* ------------------------------------------------------------------ bounds
BufferSize == 2          \* the configured 'buffer_size'
MaxAppends == 3          \* Metric objects created per behaviour
MaxTime == 3             \* the clock runs 0..MaxTime (hours)
RetentionHours == 2      \* the configured 'metrics_retention_hours'
MaxRegistrations == 3    \* register_check calls per behaviour
MaxRuns == 2             \* run_all_checks calls per behaviour
MaxProbes == 2           \* _check_server_health calls per behaviour
MaxThreads == 2          \* collection threads created per behaviour
MaxIterations == 2       \* iterations of _collection_loop begun per behaviour
MaxRequests == 2         \* HTTP requests served per behaviour
MaxInstances == 3        \* MetricsCollector objects constructed per behaviour
MaxCallers == 3          \* threads calling get_metrics_collector
MaxLockThreads == 2      \* threads calling methods of one MetricsCollector
MaxCalls == 2            \* method calls per such thread

\* ------------------------------------------------------- program constants
DefaultTimeRange == 1   \* get_metrics: time_range or timedelta(hours=1)
HttpOk == 200           \* _http_health_check: response.status_code == 200
SummaryMinutes == 5     \* get_summary_stats: timedelta(minutes=5)

\* ------------------------------------------------------------------ values
None == [some |-> FALSE]
Some(v) == [some |-> TRUE, val |-> v]

\* Two request threads write concurrently; one more thread reads and the
\* collection thread cleans up.
Writers == {"w1", "w2"}
MetricNames == {<<"a">>, <<"b", ".", "a">>}
MetricValues == {1}
TagInputs == {None}
NamePatterns == {None, Some(<<>>), Some(<<"a">>), Some(<<"b", ".">>), Some(<<".", "a">>),
                 Some(<<"a", "b">>)}
TimeRanges == {None, Some(0), Some(1), Some(2)}
\* the arguments the concurrent reader uses
ReaderPatterns == {None}
ReaderRanges == {Some(2)}

VARIABLES
  now,              \* datetime.now(), in hours
  metrics_buffer,   \* MetricsCollector.metrics_buffer
  pc,               \* where each writer thread stands in add_metric
  reader_pc,        \* where the reader stands in get_metrics
  collector_pc,     \* where the collection thread stands in _cleanup_old_metrics
  pending,          \* add_metric's local `metric`, per writer
  get_args,         \* get_metrics' locals: cutoff_time and name_pattern
  returned,         \* the list object get_metrics returned, while its caller holds it
  cleanup_cutoff,   \* _cleanup_old_metrics' local cutoff_time
  history,          \* ghost: every observation appended, in append order
  created,          \* ghost: number of Metric objects constructed
  cleaned,          \* ghost: number of observations cleanup has removed
  custom_checks,    \* HealthCheckManager.custom_checks
  health_result,    \* the dict run_all_checks returned, until the caller's next call
  invoked,          \* ghost: the check functions the last run_all_checks called
  run_base,         \* ghost: len(history) when the last run_all_checks began
  runs,             \* ghost: number of run_all_checks calls
  registrations,    \* ghost: every register_check call, in call order
  servers,          \* MetricsCollector.servers (the configured 'servers')
  health_status,    \* MetricsCollector.health_status
  probe,            \* ghost: the last _check_server_health call and how it ended
  probes,           \* ghost: number of _check_server_health calls
  is_running,       \* MetricsCollector.is_running
  collection_thread,\* MetricsCollector.collection_thread: a thread id, 0 for None
  ctl_pc,           \* where the thread calling start_collection/stop_collection stands
  loop,             \* the threads running _collection_loop: position and iteration data
  iterations,       \* ghost: loop iterations begun, over all threads
  alert_thresholds, \* MetricsCollector.alert_thresholds (the configured 'alert_thresholds')
  alert_log,        \* the ALERT warnings _check_alerts has logged, in order
  mw_config,        \* MonitoringMiddleware.config
  wall,             \* time.time(), in units of 0.1 ms
  req,              \* the request being served: request, g, response, and where it stands
  request_counts,   \* MetricsCollector.request_counts
  response_times,   \* MetricsCollector.response_times
  error_counts,     \* MetricsCollector.error_counts
  read,             \* the last read call (a query, an export, a dashboard view): what it returned
  metrics_collector,\* the module global _metrics_collector: an index into instances, 0 for None
  instances,        \* the MetricsCollector objects constructed, in order of construction
  calls,            \* where each caller of get_metrics_collector stands, and what it got
  components,       \* self.metrics_collector of the middleware and of the HealthCheckManager
  rr,               \* where each thread stands in record_request, and its operands
  lock,             \* MetricsCollector.lock: the thread that holds it, 0 when free
  ops               \* the collector method each thread is in, and how far

storeVars == <<metrics_buffer, history, created>>
threadVars == <<pc, reader_pc, collector_pc, pending, cleanup_cutoff>>
healthVars == <<custom_checks, health_result, invoked, run_base, runs, registrations>>
probeVars == <<servers, health_status, probe, probes>>
loopVars == <<is_running, collection_thread, ctl_pc, loop, iterations>>
alertVars == <<alert_thresholds, alert_log>>
httpVars == <<mw_config, wall, req, request_counts, response_times, error_counts>>
extVars == <<probeVars, loopVars, alertVars, httpVars>>
singleVars == <<now, metrics_buffer, pc, reader_pc, collector_pc, pending, get_args, returned,
                cleanup_cutoff, history, created, cleaned, custom_checks, health_result,
                invoked, run_base, runs, registrations, servers, health_status, probe, probes,
                is_running, collection_thread, ctl_pc, loop, iterations, alert_thresholds,
                alert_log, mw_config, wall, req, request_counts, response_times, error_counts,
                read>>
globalVars == <<metrics_collector, instances, calls, components>>
lockVars == <<lock, ops>>
moreVars == <<globalVars, rr, lockVars>>

vars == <<now, metrics_buffer, pc, reader_pc, collector_pc, pending, get_args, returned,
          cleanup_cutoff, history, created, cleaned, custom_checks, health_result,
          invoked, run_base, runs, registrations, servers, health_status, probe, probes,
          is_running, collection_thread, ctl_pc, loop, iterations, alert_thresholds,
          alert_log, mw_config, wall, req, request_counts, response_times, error_counts,
          read, metrics_collector, instances, calls, components, rr, lock, ops>>

\* ------------------------------------------------------------- Metric, deque
\* A Python dict, in insertion order: a sequence of [k, v] with distinct keys.
\* faulty variant of DictSet: every assignment adds an item, as on a list of pairs
DictSetAppends(d, key, value) == Append(d, [k |-> key, v |-> value])

\* d[key] = value
DictSet(d, key, value) ==
  IF \E i \in 1..Len(d) : d[i].k = key
  THEN [i \in 1..Len(d) |-> IF d[i].k = key THEN [k |-> key, v |-> value] ELSE d[i]]
  ELSE Append(d, [k |-> key, v |-> value])

\* `tags or {}`
TagsOrEmpty(tags) == IF tags.some /\ Len(tags.val) > 0 THEN tags.val ELSE <<>>

\* The Metric dataclass; `id` stands for the object's identity.
Metric(name, value, timestamp, tags, id) ==
  [name |-> name, value |-> value, timestamp |-> timestamp, tags |-> tags, id |-> id]

\* faulty variants of DequeAppend: a deque built without maxlen; an append done twice
DequeAppendNoMaxlen(buf, m, maxlen) == Append(buf, m)

DequeAppendTwice(buf, m, maxlen) ==
  IF Len(buf) + 2 > maxlen THEN Append(Tail(Append(buf, m)), m) ELSE Append(Append(buf, m), m)

\* collections.deque(maxlen=n).append
DequeAppend(buf, m, maxlen) ==
  IF maxlen = 0 THEN buf
  ELSE IF Len(buf) >= maxlen THEN Append(Tail(buf), m)
  ELSE Append(buf, m)

\* add_metric(...) called from within another method (run_all_checks,
\* _check_server_health, the middleware's callbacks): the whole call, on the
\* store carried in the caller's state.
AddMetricIn(run, name, value, tags) ==
  [run EXCEPT
     !.buffer = DequeAppend(@, Metric(name, value, now, tags, run.created + 1), BufferSize),
     !.history = Append(@, Metric(name, value, now, tags, run.created + 1)),
     !.created = @ + 1]

\* collections.deque(maxlen=n) after appending the elements of `new` one by
\* one: the last n elements of what was there followed by `new`
DequeExtend(buf, new, maxlen) ==
  SubSeq(buf \o new,
         IF Len(buf) + Len(new) > maxlen THEN Len(buf) + Len(new) - maxlen + 1 ELSE 1,
         Len(buf) + Len(new))

\* the add_metric calls ms made one after another on the store carried in st
AddMetricsIn(st, ms) ==
  LET new == [i \in 1..Len(ms) |->
                Metric(ms[i].name, ms[i].value, now, ms[i].tags, st.created + i)]
  IN  [st EXCEPT !.buffer = DequeExtend(@, new, BufferSize),
                 !.history = @ \o new,
                 !.created = @ + Len(ms)]

\* faulty variant of StrContains: startswith instead of `in`
StrStartsWith(p, s) ==
  Len(p) <= Len(s) /\ \A k \in 1..Len(p) : s[k] = p[k]

\* Python's `p in s` on strings: p occurs in s as a contiguous substring.
StrContains(p, s) ==
  \E i \in 0..(Len(s) - Len(p)) : \A k \in 1..Len(p) : s[i + k] = p[k]

\* ------------------------------------------------------------ _check_alerts
\* name.split('.')[-1]: what follows the last '.', the whole name without one
LastSegment(name) ==
  LET dots == {i \in 1..Len(name) : name[i] = "."}
  IN  IF dots = {} THEN name
      ELSE SubSeq(name, (CHOOSE i \in dots : \A j \in dots : j <= i) + 1, Len(name))

\* d.get(key): the value, or None
DictGet(d, key) ==
  IF \E i \in 1..Len(d) : d[i].k = key
  THEN Some(d[CHOOSE i \in 1..Len(d) : d[i].k = key].v)
  ELSE None

\* line 262: `threshold and metric.value > threshold`; None and 0 are falsy
Exceeds(threshold, value) ==
  threshold.some /\ threshold.val # 0 /\ value > threshold.val

\* _check_alerts, lines 257-264: the log after the check of one metric
CheckAlerts(thresholds, log, name, value) ==
  IF Exceeds(DictGet(thresholds, LastSegment(name)), value)
  THEN Append(log, [name |-> name, value |-> value,
                    threshold |-> DictGet(thresholds, LastSegment(name)).val])
  ELSE log

\* ---------------------------------------------------- _cleanup_old_metrics
\* The for-loop of lines 272-276: the index (0-based) of the first metric
\* with timestamp >= cutoff, and 0 when the loop never breaks.
RECURSIVE FirstNewerFrom(_, _, _)
FirstNewerFrom(buf, cutoff, i) ==
  IF i > Len(buf) THEN 0
  ELSE IF buf[i].timestamp >= cutoff THEN i - 1
  ELSE FirstNewerFrom(buf, cutoff, i + 1)

StartIndex(buf, cutoff) == FirstNewerFrom(buf, cutoff, 1)

\* lines 279-281: popleft() start_index times
CleanupOldMetrics(buf, cutoff) ==
  SubSeq(buf, StartIndex(buf, cutoff) + 1, Len(buf))

\* ------------------------------------------------------------- get_metrics
\* faulty variant of EffectiveRange: the default window is the retention period
EffectiveRangeRetention(time_range) ==
  IF time_range.some /\ time_range.val # 0 THEN time_range.val ELSE RetentionHours

\* `time_range or timedelta(hours=1)`: None and a zero timedelta are falsy.
EffectiveRange(time_range) ==
  IF time_range.some /\ time_range.val # 0 THEN time_range.val ELSE DefaultTimeRange

\* `name_pattern and name_pattern not in metric.name`
Skipped(name_pattern, name) ==
  name_pattern.some /\ Len(name_pattern.val) > 0 /\ ~StrContains(name_pattern.val, name)

\* the loop of lines 289-297 from index i on, accumulating into acc
RECURSIVE FilterFrom(_, _, _, _, _)
FilterFrom(buf, cutoff, name_pattern, i, acc) ==
  IF i > Len(buf) THEN acc
  ELSE IF buf[i].timestamp < cutoff THEN FilterFrom(buf, cutoff, name_pattern, i + 1, acc)
  ELSE IF Skipped(name_pattern, buf[i].name) THEN FilterFrom(buf, cutoff, name_pattern, i + 1, acc)
  ELSE FilterFrom(buf, cutoff, name_pattern, i + 1, Append(acc, buf[i]))

FilteredMetrics(buf, cutoff, name_pattern) == FilterFrom(buf, cutoff, name_pattern, 1, <<>>)

\* faulty variant of ReturnedList: a live, filtered view of the buffer is handed back
ReturnedView(buf, cutoff, name_pattern) ==
  [kind |-> "view", cutoff |-> cutoff, name_pattern |-> name_pattern]

\* What get_metrics hands back: a list object of its own (filtered_metrics),
\* holding the elements selected while the lock was held.
ReturnedList(buf, cutoff, name_pattern) ==
  [kind |-> "list", items |-> FilteredMetrics(buf, cutoff, name_pattern)]

\* The elements a caller sees in a returned list object.
Elements(r) ==
  IF r.kind = "list" THEN r.items
  ELSE FilteredMetrics(metrics_buffer, r.cutoff, r.name_pattern)

ElementsNext(r) ==
  IF r.kind = "list" THEN r.items
  ELSE FilteredMetrics(metrics_buffer', r.cutoff, r.name_pattern)

\* ------------------------------------------------------ server health probes
\* string literals of _check_server_health and the default server names
StrServer == <<"s", "e", "r", "v", "e", "r">>
StrHealth == <<"h", "e", "a", "l", "t", "h">>
StrResponseTime == <<"r", "e", "s", "p", "o", "n", "s", "e", "_", "t", "i", "m", "e">>
StrSeconds == <<"s", "e", "c", "o", "n", "d", "s">>
Kali == <<"k", "a", "l", "i">>
Perplexity == <<"p", "e", "r", "p", "l", "e", "x", "i", "t", "y">>
Mcp == <<"m", "c", "p">>

\* default_config['servers'], lines 81-85; the mcp entry has no 'url'
DefaultServers ==
  <<[k |-> Kali, v |-> [url |-> Some("http://localhost:5000"), enabled |-> TRUE]],
    [k |-> Perplexity, v |-> [url |-> Some("http://localhost:5050"), enabled |-> TRUE]],
    [k |-> Mcp, v |-> [url |-> None, enabled |-> TRUE]]>>

\* What requests.get(f"{url}/health", timeout=10) can do.  A response has a
\* status code and a body: a JSON object (with or without a 'status' and a
\* 'tools_status' member), JSON that is not an object, or text that is not
\* JSON.  Otherwise the call raises a RequestException (connection refused,
\* timeout).  `decode_error` is what response.json() raises on a body that is
\* not JSON: requests.exceptions.JSONDecodeError, a RequestException, from
\* requests 2.27 on, and a plain ValueError before.  `seconds` is how long the
\* call takes.
HealthResponse(kind, status_code, body, status, tools_status, decode_error, error, seconds) ==
  [kind |-> kind, status_code |-> status_code, body |-> body, status |-> status,
   tools_status |-> tools_status, decode_error |-> decode_error, error |-> error,
   seconds |-> seconds]

BodyStatuses == {"healthy", "ok", "degraded", "missing"}
ToolsStatuses == {<<>>, <<[k |-> "nmap", v |-> TRUE]>>}
DecodeErrors == {"RequestException", "ValueError"}

HealthResponses ==
  {HealthResponse("response", HttpOk, "object", s, t, "-", "-", 1) :
     s \in BodyStatuses, t \in ToolsStatuses}
  \cup {HealthResponse("response", HttpOk, "array", "-", <<>>, "-", "-", 1)}
  \cup {HealthResponse("response", HttpOk, "not_json", "-", <<>>, d, "-", 1) :
          d \in DecodeErrors}
  \cup {HealthResponse("response", c, b, "healthy", <<>>, "ValueError", "-", 2) :
          c \in {404, 503}, b \in {"object", "not_json"}}
  \cup {HealthResponse("raises", 0, "-", "-", <<>>, "-", e, 10) :
          e \in {"ConnectTimeout", "ConnectionError"}}

\* The ServerHealth dataclass; __post_init__ turns tools_status None into {}.
\* An error_message is a pair: the text and, for f"HTTP {status_code}", the
\* code (0 for str(e)).
ServerHealth(server_name, status, last_check, response_time, error_message, tools_status) ==
  [server_name |-> server_name, status |-> status, last_check |-> last_check,
   response_time |-> response_time, error_message |-> error_message,
   tools_status |-> tools_status]

Returned(health) == [raised |-> FALSE, exception |-> "-", health |-> Some(health)]
Raised(exception) == [raised |-> TRUE, exception |-> exception, health |-> None]

\* lines 237-245: the except branch of _http_health_check
HttpUnreachable(server_name, error, seconds) ==
  Returned(ServerHealth(server_name, "unreachable", now, seconds, Some(<<error, 0>>), <<>>))

\* _http_health_check, lines 207-245.  response_time is time.time() after the
\* call minus time.time() before it: the seconds the call took.  Only
\* requests.exceptions.RequestException is caught.
HttpHealthCheck(server_name, url, r) ==
  IF r.kind = "raises" THEN HttpUnreachable(server_name, r.error, r.seconds)
  ELSE IF r.status_code = HttpOk
  THEN CASE r.body = "not_json" ->
              IF r.decode_error = "RequestException"
              THEN HttpUnreachable(server_name, "JSONDecodeError", r.seconds)
              ELSE Raised("ValueError")
         [] r.body = "array" -> Raised("AttributeError")
         [] r.body = "object" ->
              Returned(ServerHealth(server_name,
                                    IF r.status \in {"healthy", "ok"} THEN "healthy"
                                    ELSE "unhealthy",
                                    now, r.seconds, None, r.tools_status))
  ELSE Returned(ServerHealth(server_name, "unhealthy", now, r.seconds,
                             Some(<<"HTTP", r.status_code>>), <<>>))

\* f"server.{server_name}.<suffix>"
ServerMetricName(server_name, suffix) ==
  StrServer \o <<".">> \o server_name \o <<".">> \o suffix

\* lines 188-197: the health of one server; server_config['url'] raises
\* KeyError when the entry has no 'url'
ProbeServer(server_name, server_config, r) ==
  IF server_name = Mcp THEN Returned(ServerHealth(server_name, "healthy", now, 0, None, <<>>))
  ELSE IF ~server_config.url.some THEN Raised("KeyError")
  ELSE HttpHealthCheck(server_name, server_config.url.val, r)

\* _check_server_health, lines 186-205, on the collector state carried in st:
\* the record is stored and two observations are appended, unless the probe
\* raised, which ends the call at line 197.
CheckServerHealthIn(st, server_name, server_config, r) ==
  LET res == ProbeServer(server_name, server_config, r)
  IN  IF res.raised THEN [st EXCEPT !.raised = TRUE, !.exception = res.exception]
      ELSE AddMetricsIn(
             [st EXCEPT !.health_status = DictSet(@, server_name, res.health.val)],
             <<[name |-> ServerMetricName(server_name, StrHealth),
                value |-> IF res.health.val.status = "healthy" THEN 1 ELSE 0,
                tags |-> <<[k |-> "server", v |-> server_name]>>],
               [name |-> ServerMetricName(server_name, StrResponseTime),
                value |-> res.health.val.response_time,
                tags |-> <<[k |-> "server", v |-> server_name],
                           [k |-> "unit", v |-> StrSeconds]>>]>>)

\* ------------------------------------------------------ the collection loop
ThreadIds == 1..MaxThreads

\* A thread running _collection_loop: where it stands (pc), the index of the
\* server _collect_server_health probes next (idx), and ghosts: the
\* iterations it began (iter), the exceptions its loop caught (caught), the
\* _cleanup_old_metrics calls of its current iteration (cleanups).
NoThread == [pc |-> "unborn", idx |-> 0, iter |-> 0, caught |-> 0, cleanups |-> 0]
Alive(th) == th.pc \notin {"unborn", "exited"}

\* tag values are strings like the names
StrSystem == <<"s", "y", "s", "t", "e", "m">>
StrBytes == <<"b", "y", "t", "e", "s">>
SourceSystem == <<[k |-> "source", v |-> StrSystem]>>
SourceSystemBytes == <<[k |-> "source", v |-> StrSystem], [k |-> "unit", v |-> StrBytes]>>

\* What psutil gives one _collect_system_metrics call: its first call raises,
\* or everything is read, with or without getloadavg (AttributeError where
\* the platform has none).
PsutilSamples ==
  {[raises |-> TRUE, loadavg |-> FALSE], [raises |-> FALSE, loadavg |-> TRUE],
   [raises |-> FALSE, loadavg |-> FALSE]}

\* the add_metric calls of lines 143-173, in order
SystemMetrics(sample) ==
  <<[name |-> <<"s", "y", "s", "t", "e", "m", ".", "c", "p", "u", ".", "p", "e", "r", "c", "e", "n", "t">>, value |-> 50, tags |-> SourceSystem],  \* system.cpu.percent
    [name |-> <<"s", "y", "s", "t", "e", "m", ".", "m", "e", "m", "o", "r", "y", ".", "p", "e", "r", "c", "e", "n", "t">>, value |-> 60, tags |-> SourceSystem],  \* system.memory.percent
    [name |-> <<"s", "y", "s", "t", "e", "m", ".", "m", "e", "m", "o", "r", "y", ".", "a", "v", "a", "i", "l", "a", "b", "l", "e">>, value |-> 4, tags |-> SourceSystemBytes],  \* system.memory.available
    [name |-> <<"s", "y", "s", "t", "e", "m", ".", "d", "i", "s", "k", ".", "p", "e", "r", "c", "e", "n", "t">>, value |-> 70, tags |-> SourceSystem],  \* system.disk.percent
    [name |-> <<"s", "y", "s", "t", "e", "m", ".", "d", "i", "s", "k", ".", "f", "r", "e", "e">>, value |-> 3, tags |-> SourceSystemBytes],  \* system.disk.free
    [name |-> <<"s", "y", "s", "t", "e", "m", ".", "n", "e", "t", "w", "o", "r", "k", ".", "b", "y", "t", "e", "s", "_", "s", "e", "n", "t">>, value |-> 2, tags |-> SourceSystemBytes],  \* system.network.bytes_sent
    [name |-> <<"s", "y", "s", "t", "e", "m", ".", "n", "e", "t", "w", "o", "r", "k", ".", "b", "y", "t", "e", "s", "_", "r", "e", "c", "v">>, value |-> 1, tags |-> SourceSystemBytes]>>  \* system.network.bytes_recv
  \o (IF sample.loadavg
      THEN <<[name |-> <<"s", "y", "s", "t", "e", "m", ".", "l", "o", "a", "d", ".", "1", "m", "i", "n">>, value |-> 1, tags |-> SourceSystem],  \* system.load.1min
             [name |-> <<"s", "y", "s", "t", "e", "m", ".", "l", "o", "a", "d", ".", "5", "m", "i", "n">>, value |-> 1, tags |-> SourceSystem],  \* system.load.5min
             [name |-> <<"s", "y", "s", "t", "e", "m", ".", "l", "o", "a", "d", ".", "1", "5", "m", "i", "n">>, value |-> 1, tags |-> SourceSystem]>>  \* system.load.15min
      ELSE <<>>)
  \o <<[name |-> <<"s", "y", "s", "t", "e", "m", ".", "p", "r", "o", "c", "e", "s", "s", ".", "c", "o", "u", "n", "t">>, value |-> 9, tags |-> SourceSystem]>>  \* system.process.count

\* _collect_system_metrics, lines 138-176: every exception is caught and logged
CollectSystemMetricsIn(st, sample) ==
  IF sample.raises THEN st ELSE AddMetricsIn(st, SystemMetrics(sample))

\* the /health answers the servers give the loop's probes
LoopResponses ==
  {HealthResponse("response", HttpOk, "object", "healthy", <<>>, "-", "-", 1),
   HealthResponse("response", HttpOk, "array", "-", <<>>, "-", "-", 1)}

\* faulty variant of LoopCondition: while True
LoopConditionAlways(running) == TRUE

\* line 128: while self.is_running
LoopCondition(running) == running

\* faulty variant of OnIterationException: no try/except, the exception ends the thread
OnIterationExceptionUncaught(th) == [th EXCEPT !.pc = "exited"]

\* lines 134-136: an exception raised in the try block is caught and logged;
\* the thread goes on to time.sleep(5)
OnIterationException(th) == [th EXCEPT !.pc = "except", !.caught = @ + 1]

\* sleeps and probes: calls that can last longer than join's timeout of 5 s
Blocking == {"sleep", "servers"}

\* ---------------------------------------------------- MonitoringMiddleware
\* string literals of the middleware and of record_request
StrHttpRequestsStarted ==
  <<"h", "t", "t", "p", ".", "r", "e", "q", "u", "e", "s", "t", "s", ".", "s", "t", "a", "r", "t", "e", "d">>
StrHttpRequestDuration ==
  <<"h", "t", "t", "p", ".", "r", "e", "q", "u", "e", "s", "t", ".", "d", "u", "r", "a", "t", "i", "o", "n">>
StrHttpResponseSize ==
  <<"h", "t", "t", "p", ".", "r", "e", "s", "p", "o", "n", "s", "e", ".", "s", "i", "z", "e">>
StrHttpErrorsCount ==
  <<"h", "t", "t", "p", ".", "e", "r", "r", "o", "r", "s", ".", "c", "o", "u", "n", "t">>
StrHttpExceptionsCount ==
  <<"h", "t", "t", "p", ".", "e", "x", "c", "e", "p", "t", "i", "o", "n", "s", ".", "c", "o", "u", "n", "t">>
StrApi == <<"a", "p", "i">>
StrRequests == <<"r", "e", "q", "u", "e", "s", "t", "s">>
StrRoot == <<"r", "o", "o", "t">>
StrUnknown == <<"u", "n", "k", "n", "o", "w", "n">>
StrGet == <<"G", "E", "T">>
StrPost == <<"P", "O", "S", "T">>

\* str(n) for n >= 0
Digit(d) == <<"0", "1", "2", "3", "4", "5", "6", "7", "8", "9">>[d + 1]
RECURSIVE IntToStr(_)
IntToStr(n) == IF n < 10 THEN <<Digit(n)>> ELSE IntToStr(n \div 10) \o <<Digit(n % 10)>>

\* faulty variant of StatusClass: the last two digits instead of the first
StatusClassOfTens(status_code) == IntToStr(status_code % 100) \o <<"x", "x">>

\* f"{response.status_code // 100}xx"
StatusClass(status_code) == IntToStr(status_code \div 100) \o <<"x", "x">>

\* f"{response_time:.3f}" for a time in units of 0.1 ms: seconds with three
\* decimals, rounded to the nearest millisecond
FormatSeconds(t) ==
  LET ms == (t + 5) \div 10
  IN  IntToStr(ms \div 1000) \o <<".">> \o
      <<Digit((ms \div 100) % 10), Digit((ms \div 10) % 10), Digit(ms % 10)>>

\* s.replace(a, b) for one-character a and b
StrReplace(s, a, b) == [i \in 1..Len(s) |-> IF s[i] = a THEN b ELSE s[i]]

\* d.get(key, default), d[key] of a defaultdict
DictGetOr(d, key, default) ==
  IF DictGet(d, key).some THEN DictGet(d, key).val ELSE default

\* `request.endpoint or <other>`: None and '' are falsy
EndpointOr(request, other) ==
  IF request.endpoint.some /\ Len(request.endpoint.val) > 0 THEN request.endpoint.val
  ELSE other

\* lines 71-73: the endpoint name _after_request records under
EndpointName(request) ==
  LET endpoint == EndpointOr(request, request.path)
  IN  IF Len(endpoint) > 0 /\ endpoint[1] = "/"
      THEN IF Len(endpoint) = 1 THEN StrRoot ELSE StrReplace(Tail(endpoint), "/", "_")
      ELSE endpoint

\* flask.g of a request for which no hook has run
EmptyG == [start_time |-> None, request_id |-> None]

\* The requests served: one routed to a view, two that match no route.
Requests ==
  {[method |-> StrGet, endpoint |-> Some(<<"t">>), path |-> <<"/", "t">>],
   [method |-> StrGet, endpoint |-> None, path |-> <<"/">>],
   [method |-> StrPost, endpoint |-> None, path |-> <<"/", "a", "/", "b">>]}
RequestIds == {<<"a", "1">>, <<"b", "2">>}
\* the responses handlers produce, and the seconds (in 0.1 ms) they take
StatusCodes == {200, 404, 500}
ContentLengths == {0, 7}
Responses ==
  {[status_code |-> c, content_length |-> n, headers |-> <<>>] :
     c \in StatusCodes, n \in ContentLengths}
Durations == {12, 10027}
\* type(error).__name__ of the exceptions handlers raise
ErrorTypes == {<<"K", "e", "y", "E", "r", "r", "o", "r">>, <<"O", "S", "E", "r", "r", "o", "r">>}
\* the config the middleware is built with
MwConfigs == {<<>>, <<[k |-> "add_timing_headers", v |-> FALSE]>>}

\* record_request, lines 334-345
RecordRequestIn(st, endpoint, response_time, status_code) ==
  AddMetricsIn(
    [st EXCEPT
       !.request_counts = DictSet(@, endpoint, DictGetOr(@, endpoint, 0) + 1),
       !.response_times = DictSet(@, endpoint,
                                  Append(DictGetOr(@, endpoint, <<>>), response_time)),
       !.error_counts = IF status_code >= 400
                        THEN DictSet(@, endpoint, DictGetOr(@, endpoint, 0) + 1)
                        ELSE @],
    <<[name |-> StrApi \o <<".">> \o endpoint \o <<".">> \o StrResponseTime,
       value |-> response_time,
       tags |-> <<[k |-> "endpoint", v |-> endpoint],
                  [k |-> "status", v |-> IntToStr(status_code)]>>],
      [name |-> StrApi \o <<".">> \o endpoint \o <<".">> \o StrRequests,
       value |-> 1,
       tags |-> <<[k |-> "endpoint", v |-> endpoint]>>]>>)

\* _before_request, lines 43-60: what it leaves in g; the observation it appends
BeforeRequestG(t, id) == [start_time |-> Some(t), request_id |-> Some(id)]

BeforeRequestIn(st, request) ==
  AddMetricsIn(st,
    <<[name |-> StrHttpRequestsStarted, value |-> 1,
       tags |-> <<[k |-> "method", v |-> request.method],
                  [k |-> "endpoint", v |-> EndpointOr(request, StrUnknown)],
                  [k |-> "path", v |-> request.path]>>]>>)

\* lines 112-114: the headers added to the response
TimingHeaders(cfg, g, response, response_time) ==
  IF DictGetOr(cfg, "add_timing_headers", TRUE)
  THEN [response EXCEPT
          !.headers = DictSet(DictSet(@, "X-Response-Time", FormatSeconds(response_time)),
                              "X-Request-ID", g.request_id.val)]
  ELSE response

\* _after_request, lines 67-116, at time t: record_request, the duration
\* observation, the size observation when content_length is truthy, the headers
AfterRequestMeasured(st, cfg, g, request, response, t) ==
  LET response_time == t - g.start_time.val
      endpoint == EndpointName(request)
      duration == [name |-> StrHttpRequestDuration, value |-> response_time,
                   tags |-> <<[k |-> "method", v |-> request.method],
                              [k |-> "endpoint", v |-> endpoint],
                              [k |-> "status_code", v |-> IntToStr(response.status_code)],
                              [k |-> "status_class", v |-> StatusClass(response.status_code)]>>]
      size == [name |-> StrHttpResponseSize, value |-> response.content_length,
               tags |-> <<[k |-> "endpoint", v |-> endpoint],
                          [k |-> "method", v |-> request.method]>>]
  IN  [raised |-> FALSE,
       st |-> AddMetricsIn(
                RecordRequestIn(st, endpoint, response_time, response.status_code),
                IF response.content_length # 0 THEN <<duration, size>> ELSE <<duration>>),
       response |-> TimingHeaders(cfg, g, response, response_time)]

\* faulty variant of AfterRequestIn: no hasattr guard, so reading g.start_time
\* raises AttributeError
AfterRequestUnguarded(st, cfg, g, request, response, t) ==
  IF ~g.start_time.some THEN [raised |-> TRUE, st |-> st, response |-> response]
  ELSE AfterRequestMeasured(st, cfg, g, request, response, t)

\* _after_request, lines 62-116
AfterRequestIn(st, cfg, g, request, response, t) ==
  IF ~g.start_time.some THEN [raised |-> FALSE, st |-> st, response |-> response]
  ELSE AfterRequestMeasured(st, cfg, g, request, response, t)

\* faulty variant of HandleExceptionIn: the handler answers instead of re-raising
HandleExceptionSwallows(st, request, error) ==
  [st |-> AddMetricsIn(st,
            <<[name |-> StrHttpExceptionsCount, value |-> 1,
               tags |-> <<[k |-> "error_type", v |-> error],
                          [k |-> "endpoint", v |-> EndpointOr(request, StrUnknown)],
                          [k |-> "method", v |-> request.method]>>]>>),
   raised |-> None]

\* _handle_exception, lines 133-159: the observation, and `raise error`
HandleExceptionIn(st, request, error) ==
  [st |-> AddMetricsIn(st,
            <<[name |-> StrHttpExceptionsCount, value |-> 1,
               tags |-> <<[k |-> "error_type", v |-> error],
                          [k |-> "endpoint", v |-> EndpointOr(request, StrUnknown)],
                          [k |-> "method", v |-> request.method]>>]>>),
   raised |-> Some(error)]

\* _teardown, lines 118-131
TeardownIn(st, request, exception) ==
  IF exception.some
  THEN AddMetricsIn(st,
         <<[name |-> StrHttpErrorsCount, value |-> 1,
            tags |-> <<[k |-> "error_type", v |-> exception.val],
                       [k |-> "endpoint", v |-> EndpointOr(request, StrUnknown)]>>]>>)
  ELSE st

\* ------------------------------------------------- the global collector
Callers == 1..MaxCallers
Components == {"MonitoringMiddleware", "HealthCheckManager"}

\* The module-level functions of metrics_collector.py see of a
\* MetricsCollector (__init__, lines 60-76) its flag and its buffer; threads
\* and appended are ghosts: the collection threads start_collection has
\* started on the object and the observations appended to it.
NewCollector == [is_running |-> FALSE, threads |-> 0, buffer |-> <<>>, appended |-> 0]

\* start_collection, lines 114-116: the flag is set and a thread started
StartThreadOn(c) == [c EXCEPT !.is_running = TRUE, !.threads = @ + 1]

\* start_collection, lines 108-117, as one call on the collector c
StartCollectionOn(c) == IF c.is_running THEN c ELSE StartThreadOn(c)

\* stop_collection, lines 119-124: the flag is cleared and the thread joined
StopCollectionOn(c) == [c EXCEPT !.is_running = FALSE]

\* The module's state: the global _metrics_collector (current: an index into
\* instances, 0 for None) and the MetricsCollector objects constructed so far.
GlobalState == [current |-> metrics_collector, instances |-> instances]

\* get_metrics_collector, lines 407-413, as one call with nothing beside it
GetMetricsCollectorIn(g) ==
  IF g.current = 0
  THEN [current |-> Len(g.instances) + 1,
        instances |-> Append(g.instances, StartCollectionOn(NewCollector))]
  ELSE g

\* init_metrics_collector, lines 415-423, as one call with nothing beside it
InitMetricsCollectorIn(g) ==
  [current |-> Len(g.instances) + 1,
   instances |->
     Append(IF g.current # 0
            THEN [g.instances EXCEPT ![g.current] = StopCollectionOn(@)]
            ELSE g.instances,
            StartCollectionOn(NewCollector))]

RECURSIVE TotalAppended(_)
TotalAppended(ins) ==
  IF ins = <<>> THEN 0 ELSE ins[1].appended + TotalAppended(Tail(ins))

\* collector.add_metric(name, 1) on the collector c (lines 247-255)
CollectorAppend(ins, c, name) ==
  [ins EXCEPT ![c].buffer = DequeAppend(@, Metric(name, 1, now, <<>>, TotalAppended(ins) + 1),
                                        BufferSize),
              ![c].appended = @ + 1]

\* ---------------------------------------------- record_request, by threads
\* A thread in record_request: its arguments, and the value it has read for
\* the `+= 1` it is in
NoRecordRequest == [pc |-> "idle", endpoint |-> <<>>, status_code |-> 0, value |-> 0]

\* what the threads pass to record_request
RecordEndpoints == {<<"t">>, <<"u">>}
RecordStatusCodes == {200, 500}

\* `d[key]` on a defaultdict (lines 72-74): a missing key is inserted with the
\* default before it is read
DefaultDictTouch(d, key, default) ==
  IF DictGet(d, key).some THEN d ELSE DictSet(d, key, default)

\* ------------------------------------------------------------ the lock
\* self.lock = threading.Lock() (line 69) is not reentrant.  `lock` is the
\* thread holding it, 0 when it is free.  A thread in a method of the
\* collector stands before one step of the method's program; `calls` counts
\* the methods it has begun.
LockThreads == 1..MaxLockThreads
NoOperation == [op |-> "idle", i |-> 0, calls |-> 0]

\* The steps of a method, as far as the lock sees them: entering and leaving
\* a `with self.lock:` block, a read or a write of one of the two shared
\* structures, a call that can block (the GET of a probe), and anything else.
Acquire == [kind |-> "acquire", res |-> "lock"]
Release == [kind |-> "release", res |-> "lock"]
ReadOf(res) == [kind |-> "read", res |-> res]
WriteOf(res) == [kind |-> "write", res |-> res]
Blocks(res) == [kind |-> "block", res |-> res]
Local == [kind |-> "local", res |-> "-"]

\* add_metric, lines 247-255: the Metric is built, appended under the lock,
\* and _check_alerts runs after the block
AddMetricProgram ==
  <<Local, Acquire, WriteOf("metrics_buffer"), Release, Local>>

\* _cleanup_old_metrics, lines 266-281: the cutoff, then under the lock the
\* search for start_index and the poplefts
CleanupOldMetricsProgram ==
  <<Local, Acquire, ReadOf("metrics_buffer"), WriteOf("metrics_buffer"), Release>>

\* get_metrics, lines 283-299
GetMetricsProgram ==
  <<Local, Acquire, ReadOf("metrics_buffer"), Release, Local>>

\* get_health_status, lines 301-304: the copy is made inside the block
GetHealthStatusProgram ==
  <<Acquire, ReadOf("health_status"), Release>>

\* get_summary_stats, lines 306-332: only recent_metrics is built under the lock
GetSummaryStatsProgram ==
  <<Acquire, ReadOf("metrics_buffer"), Release, Local>>

\* _export_prometheus, lines 381-402
ExportPrometheusProgram ==
  <<Local, Acquire, ReadOf("metrics_buffer"), Release, Local>>

\* faulty variant of ExportJsonProgram: get_summary_stats is called inside
\* the with-block
ExportJsonProgramNested ==
  <<Local, Acquire, ReadOf("metrics_buffer")>> \o GetSummaryStatsProgram
    \o <<Release, ReadOf("health_status"), Local>>

\* _export_json, lines 356-379: the buffer is read under the lock (360-367),
\* health_status is iterated after the block (370-372), then get_summary_stats
\* is called and json.dumps builds the text (374-379)
ExportJsonProgram ==
  <<Local, Acquire, ReadOf("metrics_buffer"), Release, ReadOf("health_status")>>
    \o GetSummaryStatsProgram \o <<Local>>

\* _check_server_health, lines 186-205: the GET of _http_health_check (line
\* 197; a local step for 'mcp'), the record stored under the lock (199-200),
\* and two add_metric calls (204-205)
CheckServerHealthProgram ==
  <<Blocks("requests.get"), Acquire, WriteOf("health_status"), Release, Local>>
    \o AddMetricProgram \o AddMetricProgram

Operations ==
  {"add_metric", "_cleanup_old_metrics", "get_metrics", "get_health_status",
   "get_summary_stats", "_export_prometheus", "_export_json", "_check_server_health"}

Program(op) ==
  CASE op = "add_metric" -> AddMetricProgram
    [] op = "_cleanup_old_metrics" -> CleanupOldMetricsProgram
    [] op = "get_metrics" -> GetMetricsProgram
    [] op = "get_health_status" -> GetHealthStatusProgram
    [] op = "get_summary_stats" -> GetSummaryStatsProgram
    [] op = "_export_prometheus" -> ExportPrometheusProgram
    [] op = "_export_json" -> ExportJsonProgram
    [] op = "_check_server_health" -> CheckServerHealthProgram

\* the step a thread stands before
CurrentStep(o) == IF o.op = "idle" THEN Local ELSE Program(o.op)[o.i]

\* the thread after its step: at the next one, or back in its caller
Advance(o) ==
  IF o.i = Len(Program(o.op)) THEN [o EXCEPT !.op = "idle", !.i = 0]
  ELSE [o EXCEPT !.i = @ + 1]

\* ------------------------------------------------- monitor_tool_execution
StrTool == <<"t", "o", "o", "l">>
StrExecutionsStarted ==
  <<"e", "x", "e", "c", "u", "t", "i", "o", "n", "s", ".", "s", "t", "a", "r", "t", "e", "d">>
StrExecutionTime ==
  <<"e", "x", "e", "c", "u", "t", "i", "o", "n", "_", "t", "i", "m", "e">>
StrExecutionsCompleted ==
  <<"e", "x", "e", "c", "u", "t", "i", "o", "n", "s", ".", "c", "o", "m", "p", "l", "e", "t", "e", "d">>
StrTimeouts == <<"t", "i", "m", "e", "o", "u", "t", "s">>
StrSuccess == <<"s", "u", "c", "c", "e", "s", "s">>
StrFailed == <<"f", "a", "i", "l", "e", "d">>
StrError == <<"e", "r", "r", "o", "r">>

\* f"tool.{tool_name}.<suffix>"
ToolMetricName(tool_name, suffix) == StrTool \o <<".">> \o tool_name \o <<".">> \o suffix

\* What a wrapped function does in `seconds`: it returns a dict, of which the
\* wrapper looks at 'success', 'return_code' and 'timed_out' (each present or
\* not); it returns something that is not a dict; or it raises, an Exception
\* or another BaseException (KeyboardInterrupt, SystemExit).
ToolOutcome(kind, success, return_code, timed_out, error_type, seconds) ==
  [kind |-> kind, success |-> success, return_code |-> return_code, timed_out |-> timed_out,
   error_type |-> error_type, seconds |-> seconds]

ToolOutcomes ==
  {ToolOutcome("dict", s, rc, t, <<>>, 2) :
     s \in {None, Some(TRUE), Some(FALSE)}, rc \in {None, Some(0), Some(1)},
     t \in {None, Some(TRUE)}}
  \cup {ToolOutcome("other", None, None, None, <<>>, 1)}
  \cup {ToolOutcome(k, None, None, None, e, 3) :
          k \in {"Exception"}, e \in {<<"T", "i", "m", "e", "o", "u", "t", "E", "r", "r", "o", "r">>}}
  \cup {ToolOutcome("BaseException", None, None, None,
                    <<"K", "e", "y", "b", "o", "a", "r", "d", "I", "n", "t", "e", "r", "r", "u", "p", "t">>, 3)}

\* faulty variant of ToolSuccess: 'return_code' is not looked at
ToolSuccessFlagOnly(result) ==
  IF result.kind = "dict" THEN (IF result.success.some THEN result.success.val ELSE FALSE)
  ELSE FALSE

\* lines 234-236: success = result.get('success', False) or
\* result.get('return_code', -1) == 0, for a dict
ToolSuccess(result) ==
  IF result.kind = "dict"
  THEN (IF result.success.some THEN result.success.val ELSE FALSE)
         \/ (IF result.return_code.some THEN result.return_code.val ELSE -1) = 0
  ELSE FALSE

ToolStatusTags(tool_name, status) ==
  <<[k |-> "tool", v |-> tool_name], [k |-> "status", v |-> status]>>

\* the wrapper of monitor_tool_execution(tool_name), lines 218-277, around a
\* function that ends with `outcome`: the store afterwards, and whether the
\* call raised.  duration is time.time() after the function minus
\* time.time() before it.
ToolExecutionIn(st, tool_name, outcome) ==
  LET started == <<[name |-> ToolMetricName(tool_name, StrExecutionsStarted), value |-> 1,
                    tags |-> <<[k |-> "tool", v |-> tool_name]>>]>>
      status == IF ToolSuccess(outcome) THEN StrSuccess ELSE StrFailed
  IN  IF outcome.kind = "BaseException"
      THEN [AddMetricsIn(st, started) EXCEPT !.raised = TRUE, !.exception = outcome.error_type]
      ELSE IF outcome.kind = "Exception"
      THEN [AddMetricsIn(st, started \o
              <<[name |-> ToolMetricName(tool_name, StrExecutionTime),
                 value |-> outcome.seconds,
                 tags |-> ToolStatusTags(tool_name, StrError)
                            \o <<[k |-> "error_type", v |-> outcome.error_type]>>],
                [name |-> ToolMetricName(tool_name, <<"e", "r", "r", "o", "r", "s">>), value |-> 1,
                 tags |-> <<[k |-> "tool", v |-> tool_name],
                            [k |-> "error_type", v |-> outcome.error_type]>>]>>)
            EXCEPT !.raised = TRUE, !.exception = outcome.error_type]
      ELSE AddMetricsIn(st, started \o
             <<[name |-> ToolMetricName(tool_name, StrExecutionTime),
                value |-> outcome.seconds, tags |-> ToolStatusTags(tool_name, status)],
               [name |-> ToolMetricName(tool_name, StrExecutionsCompleted), value |-> 1,
                tags |-> ToolStatusTags(tool_name, status)]>>
             \o (IF outcome.kind = "dict" /\ outcome.timed_out.some /\ outcome.timed_out.val
                 THEN <<[name |-> ToolMetricName(tool_name, StrTimeouts), value |-> 1,
                         tags |-> <<[k |-> "tool", v |-> tool_name]>>]>>
                 ELSE <<>>))

\* -------------------------------------------------------------------- Init
\* The state after MetricsCollector() and HealthCheckManager() are constructed,
\* leaving out what the configuration decides.
InitState ==
  /\ now = 0
  /\ metrics_buffer = <<>>
  /\ pc = [w \in Writers |-> "idle"]
  /\ reader_pc = "idle"
  /\ collector_pc = "idle"
  /\ pending = [w \in Writers |-> None]
  /\ get_args = None
  /\ returned = None
  /\ cleanup_cutoff = 0
  /\ history = <<>>
  /\ created = 0
  /\ cleaned = 0
  /\ custom_checks = <<>>
  /\ health_result = None
  /\ invoked = <<>>
  /\ run_base = 0
  /\ runs = 0
  /\ registrations = <<>>
  /\ health_status = <<>>
  /\ probe = None
  /\ probes = 0
  /\ is_running = FALSE
  /\ collection_thread = 0
  /\ ctl_pc = "idle"
  /\ loop = [t \in ThreadIds |-> NoThread]
  /\ iterations = 0
  /\ alert_log = <<>>
  /\ wall = 0
  /\ req = None
  /\ request_counts = <<>>
  /\ response_times = <<>>
  /\ error_counts = <<>>
  /\ read = None
  /\ metrics_collector = 0
  /\ instances = <<>>
  /\ calls = [t \in Callers |-> [pc |-> "idle", self |-> 0, ret |-> 0]]
  /\ components = [comp \in Components |-> 0]
  /\ rr = [w \in Writers |-> NoRecordRequest]
  /\ lock = 0
  /\ ops = [t \in LockThreads |-> NoOperation]

\* The default configuration's servers (_load_config), no alert thresholds
\* ('alert_thresholds': {}, so that _check_alerts never logs), and a
\* middleware built without a config.
Init ==
  /\ InitState
  /\ servers = DefaultServers
  /\ alert_thresholds = <<>>
  /\ mw_config = <<>>

\* ------------------------------------------------- actions: threads on a store
\* Wall-clock time passes.
Tick ==
  /\ now < MaxTime
  /\ now' = now + 1
  /\ UNCHANGED <<moreVars, read, storeVars, threadVars, get_args, returned, cleaned, healthVars, extVars>>

\* add_metric, line 249: the Metric is built, stamped with datetime.now(),
\* before the lock is taken.
AddMetricCreate(w, name, value, tags) ==
  /\ pc[w] = "idle"
  /\ created < MaxAppends
  /\ pending' = [pending EXCEPT
                   ![w] = Some(Metric(name, value, now, TagsOrEmpty(tags), created + 1))]
  /\ created' = created + 1
  /\ pc' = [pc EXCEPT ![w] = "add_lock"]
  /\ UNCHANGED <<moreVars, read, now, metrics_buffer, history, reader_pc, collector_pc, cleanup_cutoff,
                 get_args, returned, cleaned, healthVars, extVars>>

\* add_metric, lines 251-255: append under the lock, then _check_alerts.
AddMetricAppend(w) ==
  /\ pc[w] = "add_lock"
  /\ metrics_buffer' = DequeAppend(metrics_buffer, pending[w].val, BufferSize)
  /\ history' = Append(history, pending[w].val)
  /\ alert_log' = CheckAlerts(alert_thresholds, alert_log, pending[w].val.name,
                              pending[w].val.value)
  /\ pending' = [pending EXCEPT ![w] = None]
  /\ pc' = [pc EXCEPT ![w] = "idle"]
  /\ UNCHANGED <<moreVars, read, now, created, reader_pc, collector_pc, cleanup_cutoff, get_args,
                 returned, cleaned, healthVars, probeVars, loopVars, alert_thresholds,
                 httpVars>>

\* get_metrics, line 286: the cutoff is computed before the lock is taken.
\* The caller lets go of the list an earlier call gave it.
GetMetricsBegin(name_pattern, time_range) ==
  /\ reader_pc = "idle"
  /\ get_args' = Some([cutoff |-> now - EffectiveRange(time_range),
                       name_pattern |-> name_pattern,
                       time_range |-> time_range])
  /\ returned' = None
  /\ reader_pc' = "get_lock"
  /\ UNCHANGED <<moreVars, read, now, storeVars, pc, collector_pc, pending, cleanup_cutoff, cleaned,
                 healthVars, extVars>>

\* get_metrics, lines 288-299: filter under the lock and return the list.
GetMetricsReturn ==
  /\ reader_pc = "get_lock"
  /\ returned' = Some(ReturnedList(metrics_buffer, get_args.val.cutoff,
                                   get_args.val.name_pattern))
  /\ get_args' = None
  /\ reader_pc' = "idle"
  /\ UNCHANGED <<moreVars, read, now, storeVars, pc, collector_pc, pending, cleanup_cutoff, cleaned,
                 healthVars, extVars>>

\* _cleanup_old_metrics, line 268
CleanupBegin ==
  /\ collector_pc = "idle"
  /\ cleanup_cutoff' = now - RetentionHours
  /\ collector_pc' = "cleanup_lock"
  /\ UNCHANGED <<moreVars, read, now, storeVars, pc, reader_pc, pending, get_args, returned, cleaned,
                 healthVars, extVars>>

\* _cleanup_old_metrics, lines 270-281
CleanupReturn ==
  /\ collector_pc = "cleanup_lock"
  /\ metrics_buffer' = CleanupOldMetrics(metrics_buffer, cleanup_cutoff)
  /\ cleaned' = cleaned + (Len(metrics_buffer) - Len(metrics_buffer'))
  /\ cleanup_cutoff' = 0
  /\ collector_pc' = "idle"
  /\ UNCHANGED <<moreVars, read, now, history, created, pc, reader_pc, pending, get_args, returned,
                 healthVars, extVars>>

Next ==
  \/ Tick
  \/ \E w \in Writers, name \in MetricNames, value \in MetricValues, tags \in TagInputs :
       AddMetricCreate(w, name, value, tags)
  \/ \E w \in Writers : AddMetricAppend(w)
  \/ \E p \in ReaderPatterns, d \in ReaderRanges : GetMetricsBegin(p, d)
  \/ GetMetricsReturn
  \/ CleanupBegin
  \/ CleanupReturn

Spec == Init /\ [][Next]_vars

\* ------------------------------------------- actions: one caller, whole calls
\* With a single caller nothing interleaves with a call, so each call is one
\* step: the composition of its steps above.  get_args and returned hold the
\* arguments and the result of a get_metrics until the caller's next call.
TickCall ==
  /\ now < MaxTime
  /\ now' = now + 1
  /\ get_args' = None
  /\ returned' = None
  /\ read' = None
  /\ UNCHANGED <<moreVars, storeVars, threadVars, cleaned, healthVars, extVars>>

AddMetric(name, value, tags) ==
  /\ created < MaxAppends
  /\ metrics_buffer' =
       DequeAppend(metrics_buffer, Metric(name, value, now, TagsOrEmpty(tags), created + 1),
                   BufferSize)
  /\ history' = Append(history, Metric(name, value, now, TagsOrEmpty(tags), created + 1))
  /\ created' = created + 1
  /\ alert_log' = CheckAlerts(alert_thresholds, alert_log, name, value)
  /\ get_args' = None
  /\ returned' = None
  /\ read' = None
  /\ UNCHANGED <<moreVars, now, threadVars, cleaned, healthVars, probeVars, loopVars,
                 alert_thresholds, httpVars>>

GetMetrics(name_pattern, time_range) ==
  /\ get_args' = Some([cutoff |-> now - EffectiveRange(time_range),
                       name_pattern |-> name_pattern,
                       time_range |-> time_range])
  /\ returned' = Some(ReturnedList(metrics_buffer, now - EffectiveRange(time_range),
                                   name_pattern))
  /\ read' = None
  /\ UNCHANGED <<moreVars, now, storeVars, threadVars, cleaned, healthVars, extVars>>

CleanupCall ==
  /\ metrics_buffer' = CleanupOldMetrics(metrics_buffer, now - RetentionHours)
  /\ cleaned' = cleaned + (Len(metrics_buffer) - Len(metrics_buffer'))
  /\ get_args' = None
  /\ returned' = None
  /\ read' = None
  /\ UNCHANGED <<moreVars, now, history, created, threadVars, healthVars, extVars>>

NextQuery ==
  \/ TickCall
  \/ \E name \in MetricNames, value \in MetricValues, tags \in TagInputs :
       AddMetric(name, value, tags)
  \/ \E p \in NamePatterns, d \in TimeRanges : GetMetrics(p, d)
  \/ CleanupCall

SpecQuery == Init /\ [][NextQuery]_vars

\* ----------------------------------------------- add_metric with thresholds
\* the configured 'alert_thresholds': none, or one for the key "a"
AlertThresholds ==
  {<<>>, <<[k |-> <<"a">>, v |-> 0]>>, <<[k |-> <<"a">>, v |-> 2]>>}
AlertNames == {<<"a">>, <<"b", ".", "a">>, <<"a", ".", "b">>}
AlertValues == {1, 2, 3}

InitAlert ==
  /\ InitState
  /\ servers = DefaultServers
  /\ alert_thresholds \in AlertThresholds
  /\ mw_config = <<>>

NextAlert ==
  \E name \in AlertNames, value \in AlertValues, tags \in TagInputs :
    AddMetric(name, value, tags)

SpecAlert == InitAlert /\ [][NextAlert]_vars

\* ------------------------------------------------------ HealthCheckManager
CheckNames == {<<"d", "b">>, <<"f", "s">>}

\* The registered callables.  Each returns a mapping with a boolean 'healthy',
\* as register_check's contract asks, or raises.
CheckFuncs == {"always_healthy", "always_unhealthy", "always_fails"}

\* What calling a check function does: the mapping it returns or the
\* exception it raises, and the seconds it takes.
CheckOutcome(f) ==
  CASE f = "always_healthy" ->
         [raises |-> FALSE, result |-> [healthy |-> TRUE], seconds |-> 0]
    [] f = "always_unhealthy" ->
         [raises |-> FALSE, result |-> [healthy |-> FALSE], seconds |-> 2]
    [] f = "always_fails" ->
         [raises |-> TRUE, error |-> "boom", error_type |-> "RuntimeError", seconds |-> 1]

\* string literals of run_all_checks
StrHealthCheck == <<"h", "e", "a", "l", "t", "h", "_", "c", "h", "e", "c", "k">>
StrDuration == <<"d", "u", "r", "a", "t", "i", "o", "n">>
StrStatus == <<"s", "t", "a", "t", "u", "s">>
StrErrors == <<"e", "r", "r", "o", "r", "s">>

\* f"health_check.{name}.<suffix>"
HealthMetricName(name, suffix) == StrHealthCheck \o <<".">> \o name \o <<".">> \o suffix

\* result.get('healthy', False)
GetHealthy(result) == IF "healthy" \in DOMAIN result THEN result.healthy ELSE FALSE

\* lines 327-341: the except branch
CheckRaised(run, name, out) ==
  AddMetricIn(
    [run EXCEPT
       !.results = DictSet(@, name, [healthy |-> FALSE, error |-> out.error,
                                     timestamp |-> now]),
       !.overall_healthy = FALSE],
    HealthMetricName(name, StrErrors), 1,
    <<[k |-> "check", v |-> name], [k |-> "error_type", v |-> out.error_type]>>)

\* faulty variants of CheckReturned: the status metric is left out; an unhealthy result
\* does not clear overall_healthy
CheckReturnedNoStatus(run, name, out) ==
  LET r1 == [run EXCEPT
               !.results = DictSet(@, name,
                             [healthy |-> out.result.healthy,
                              check_duration |-> out.seconds, timestamp |-> now])]
      r2 == AddMetricIn(r1, HealthMetricName(name, StrDuration), out.seconds,
                        <<[k |-> "check", v |-> name]>>)
  IN  [r2 EXCEPT !.overall_healthy = @ /\ GetHealthy(out.result)]

CheckReturnedKeepsOverall(run, name, out) ==
  LET r1 == [run EXCEPT
               !.results = DictSet(@, name,
                             [healthy |-> out.result.healthy,
                              check_duration |-> out.seconds, timestamp |-> now])]
      r2 == AddMetricIn(r1, HealthMetricName(name, StrDuration), out.seconds,
                        <<[k |-> "check", v |-> name]>>)
  IN  AddMetricIn(r2, HealthMetricName(name, StrStatus),
                  IF GetHealthy(out.result) THEN 1 ELSE 0,
                  <<[k |-> "check", v |-> name]>>)

\* lines 301-325: the check returned `result`
CheckReturned(run, name, out) ==
  LET r1 == [run EXCEPT
               !.results = DictSet(@, name,
                             [healthy |-> out.result.healthy,
                              check_duration |-> out.seconds, timestamp |-> now])]
      r2 == AddMetricIn(r1, HealthMetricName(name, StrDuration), out.seconds,
                        <<[k |-> "check", v |-> name]>>)
      r3 == AddMetricIn(r2, HealthMetricName(name, StrStatus),
                        IF GetHealthy(out.result) THEN 1 ELSE 0,
                        <<[k |-> "check", v |-> name]>>)
  IN  [r3 EXCEPT !.overall_healthy = @ /\ GetHealthy(out.result)]

\* faulty variant of RunOneCheck: no try/except around the call; the exception ends
\* the run
RunOneCheckUnguarded(run, name, check_func) ==
  IF run.aborted THEN run
  ELSE LET called == [run EXCEPT !.invoked = Append(@, [k |-> name, v |-> check_func])]
       IN  IF CheckOutcome(check_func).raises
           THEN [called EXCEPT !.aborted = TRUE, !.overall_healthy = FALSE]
           ELSE CheckReturned(called, name, CheckOutcome(check_func))

\* lines 300-341: one iteration of the loop
RunOneCheck(run, name, check_func) ==
  LET called == [run EXCEPT !.invoked = Append(@, [k |-> name, v |-> check_func])]
  IN  IF CheckOutcome(check_func).raises
      THEN CheckRaised(called, name, CheckOutcome(check_func))
      ELSE CheckReturned(called, name, CheckOutcome(check_func))

\* line 299: for name, check_func in self.custom_checks.items()
RECURSIVE RunChecksFrom(_, _, _)
RunChecksFrom(checks, i, run) ==
  IF i > Len(checks) THEN run
  ELSE RunChecksFrom(checks, i + 1, RunOneCheck(run, checks[i].k, checks[i].v))

\* register_check, lines 289-292 (also reached through the health_check
\* decorator, lines 359-364)
RegisterCheck(name, check_func) ==
  /\ Len(registrations) < MaxRegistrations
  /\ custom_checks' = DictSet(custom_checks, name, check_func)
  /\ registrations' = Append(registrations, [k |-> name, v |-> check_func])
  /\ health_result' = None
  /\ invoked' = <<>>
  /\ run_base' = 0
  /\ UNCHANGED <<moreVars, read, now, storeVars, threadVars, get_args, returned, cleaned, runs, extVars>>

\* run_all_checks, lines 294-347.  The run's state: the locals results and
\* overall_healthy, the calls made so far, the collector's store, and whether
\* an exception has escaped the loop (it never does: each call is guarded).
RunAllChecks ==
  /\ runs < MaxRuns
  /\ LET run == RunChecksFrom(custom_checks, 1,
                  [results |-> <<>>, overall_healthy |-> TRUE, invoked |-> <<>>,
                   aborted |-> FALSE, buffer |-> metrics_buffer, history |-> history,
                   created |-> created])
     IN  /\ health_result' = Some([overall_healthy |-> run.overall_healthy,
                                   checks |-> run.results,
                                   timestamp |-> now])
         /\ invoked' = run.invoked
         /\ metrics_buffer' = run.buffer
         /\ history' = run.history
         /\ created' = run.created
  /\ run_base' = Len(history)
  /\ runs' = runs + 1
  /\ UNCHANGED <<moreVars, read, now, threadVars, get_args, returned, cleaned, custom_checks, registrations,
                 extVars>>

NextHealth ==
  \/ \E name \in CheckNames, check_func \in CheckFuncs : RegisterCheck(name, check_func)
  \/ RunAllChecks

SpecHealth == Init /\ [][NextHealth]_vars

\* ------------------------------------------- actions: server health probes
\* the collector state a probe or a loop step works on
CollectorState ==
  [buffer |-> metrics_buffer, history |-> history, created |-> created,
   health_status |-> health_status, raised |-> FALSE, exception |-> "-"]

\* _check_server_health(server_name, server_config) for the i-th configured
\* server, as _collect_server_health calls it, with r the answer of the
\* server's /health.  An exception that escapes the call leaves the record
\* and the store as they were.
CheckServerHealth(i, r) ==
  /\ probes < MaxProbes
  /\ i \in 1..Len(servers)
  /\ servers[i].v.enabled
  /\ \E st \in {CheckServerHealthIn(CollectorState, servers[i].k, servers[i].v, r)} :
         /\ health_status' = st.health_status
         /\ metrics_buffer' = st.buffer
         /\ history' = st.history
         /\ created' = st.created
         /\ probe' = Some([server_name |-> servers[i].k, response |-> r,
                           result |-> ProbeServer(servers[i].k, servers[i].v, r),
                           raised |-> st.raised, exception |-> st.exception,
                           before |-> Len(history)])
  /\ probes' = probes + 1
  /\ UNCHANGED <<moreVars, read, now, threadVars, get_args, returned, cleaned, healthVars, alertVars, httpVars,
                 servers, loopVars>>

NextProbe ==
  \/ Tick
  \/ \E i \in 1..Len(servers), r \in HealthResponses : CheckServerHealth(i, r)

SpecProbe == Init /\ [][NextProbe]_vars

\* ------------------------------------------- actions: the collection loop
\* start_collection, lines 108-117
StartCollection ==
  /\ ctl_pc = "idle"
  /\ IF is_running THEN UNCHANGED <<is_running, collection_thread, loop>>
     ELSE \E t \in ThreadIds :
            /\ loop[t].pc = "unborn"
            /\ \A u \in ThreadIds : u < t => loop[u].pc # "unborn"
            /\ is_running' = TRUE
            /\ collection_thread' = t
            /\ loop' = [loop EXCEPT ![t].pc = "while"]
  /\ UNCHANGED <<moreVars, read, now, storeVars, threadVars, get_args, returned, cleaned, healthVars, alertVars, httpVars,
                 probeVars, ctl_pc, iterations>>

\* stop_collection, lines 119-123: clear the flag, then join the thread, if any
StopCollection ==
  /\ ctl_pc = "idle"
  /\ is_running' = FALSE
  /\ ctl_pc' = IF collection_thread # 0 THEN "join" ELSE "idle"
  /\ UNCHANGED <<moreVars, read, now, storeVars, threadVars, get_args, returned, cleaned, healthVars, alertVars, httpVars,
                 probeVars, collection_thread, loop, iterations>>

\* stop_collection, lines 123-124: join(timeout=5) returns when the thread has
\* ended, or after 5 s while the thread is in a call that lasts longer
JoinReturn ==
  /\ ctl_pc = "join"
  /\ loop[collection_thread].pc \in {"exited"} \cup Blocking
  /\ ctl_pc' = "idle"
  /\ UNCHANGED <<moreVars, read, now, storeVars, threadVars, get_args, returned, cleaned, healthVars, alertVars, httpVars,
                 probeVars, is_running, collection_thread, loop, iterations>>

\* line 128: the loop condition is read; an iteration begins or the thread ends
LoopWhile(t) ==
  /\ loop[t].pc = "while"
  /\ IF LoopCondition(is_running)
     THEN /\ iterations < MaxIterations
          /\ loop' = [loop EXCEPT ![t].pc = "system", ![t].iter = @ + 1, ![t].cleanups = 0]
          /\ iterations' = iterations + 1
     ELSE /\ loop' = [loop EXCEPT ![t].pc = "exited"]
          /\ UNCHANGED iterations
  /\ UNCHANGED <<moreVars, read, now, storeVars, threadVars, get_args, returned, cleaned, healthVars, alertVars, httpVars,
                 probeVars, is_running, collection_thread, ctl_pc>>

\* line 130: self._collect_system_metrics()
LoopSystem(t, sample) ==
  /\ loop[t].pc = "system"
  /\ \E st \in {CollectSystemMetricsIn(CollectorState, sample)} :
         /\ metrics_buffer' = st.buffer
         /\ history' = st.history
         /\ created' = st.created
  /\ loop' = [loop EXCEPT ![t].pc = "servers", ![t].idx = 1]
  /\ UNCHANGED <<moreVars, read, now, threadVars, get_args, returned, cleaned, healthVars, alertVars, httpVars, probeVars,
                 is_running, collection_thread, ctl_pc, iterations>>

\* line 131: self._collect_server_health(), one pass of its for-loop (lines
\* 180-184): the loop is over, or the server is skipped as not enabled, or it
\* is probed, with r the answer of its /health.  An exception raised by the
\* probe leaves _collect_server_health and the try block.
LoopServers(t, r) ==
  /\ loop[t].pc = "servers"
  /\ IF loop[t].idx > Len(servers)
     THEN /\ loop' = [loop EXCEPT ![t].pc = "cleanup"]
          /\ UNCHANGED <<storeVars, health_status, probe>>
     ELSE IF ~servers[loop[t].idx].v.enabled
     THEN /\ loop' = [loop EXCEPT ![t].idx = @ + 1]
          /\ UNCHANGED <<storeVars, health_status, probe>>
     ELSE \E name \in {servers[loop[t].idx].k} :
          \E st \in {CheckServerHealthIn(CollectorState, name, servers[loop[t].idx].v, r)} :
              /\ health_status' = st.health_status
              /\ metrics_buffer' = st.buffer
              /\ history' = st.history
              /\ created' = st.created
              /\ probe' = Some([server_name |-> name, response |-> r,
                                result |-> ProbeServer(name, servers[loop[t].idx].v, r),
                                raised |-> st.raised, exception |-> st.exception,
                                before |-> Len(history)])
              /\ loop' = [loop EXCEPT ![t] = IF st.raised THEN OnIterationException(@)
                                               ELSE [@ EXCEPT !.idx = @ + 1]]
  /\ UNCHANGED <<moreVars, read, now, threadVars, get_args, returned, cleaned, healthVars, alertVars, httpVars, servers, probes,
                 is_running, collection_thread, ctl_pc, iterations>>

\* line 132: self._cleanup_old_metrics()
LoopCleanup(t) ==
  /\ loop[t].pc = "cleanup"
  /\ metrics_buffer' = CleanupOldMetrics(metrics_buffer, now - RetentionHours)
  /\ cleaned' = cleaned + (Len(metrics_buffer) - Len(metrics_buffer'))
  /\ loop' = [loop EXCEPT ![t].pc = "sleep", ![t].cleanups = @ + 1]
  /\ UNCHANGED <<moreVars, read, now, history, created, threadVars, get_args, returned, healthVars, alertVars, httpVars,
                 probeVars, is_running, collection_thread, ctl_pc, iterations>>

\* line 133: time.sleep(self.collection_interval) returns
LoopSleep(t) ==
  /\ loop[t].pc = "sleep"
  /\ loop' = [loop EXCEPT ![t].pc = "while"]
  /\ UNCHANGED <<moreVars, read, now, storeVars, threadVars, get_args, returned, cleaned, healthVars, alertVars, httpVars,
                 probeVars, is_running, collection_thread, ctl_pc, iterations>>

\* line 136: time.sleep(5) returns
LoopBackoff(t) ==
  /\ loop[t].pc = "except"
  /\ loop' = [loop EXCEPT ![t].pc = "while"]
  /\ UNCHANGED <<moreVars, read, now, storeVars, threadVars, get_args, returned, cleaned, healthVars, alertVars, httpVars,
                 probeVars, is_running, collection_thread, ctl_pc, iterations>>

\* a step of a collection thread
LoopStep(t) ==
  \/ LoopWhile(t)
  \/ \E sample \in PsutilSamples : LoopSystem(t, sample)
  \/ \E r \in LoopResponses : LoopServers(t, r)
  \/ LoopCleanup(t)
  \/ LoopSleep(t)
  \/ LoopBackoff(t)

NextLoop ==
  \/ StartCollection
  \/ StopCollection
  \/ JoinReturn
  \/ \E t \in ThreadIds : LoopStep(t)

SpecLoop == Init /\ [][NextLoop]_vars

\* The scheduler runs every thread that can take a step; sleeps end and
\* probes return (the GET has a timeout).
SpecLoopFair == SpecLoop /\ \A t \in ThreadIds : WF_vars(LoopStep(t))

\* A configuration file whose 'servers' section sets 'enabled': false for one
\* of the default servers (_load_config, lines 78-106; the flag is read at
\* line 181).
ServersWithDisabled(name) ==
  [i \in 1..Len(DefaultServers) |->
     [k |-> DefaultServers[i].k,
      v |-> [DefaultServers[i].v EXCEPT !.enabled = (DefaultServers[i].k # name)]]]

InitDisabled ==
  /\ InitState
  /\ servers \in {ServersWithDisabled(Kali), ServersWithDisabled(Perplexity)}
  /\ alert_thresholds = <<>>
  /\ mw_config = <<>>

\* the collection loop over a configuration with a disabled server
SpecLoopDisabled == InitDisabled /\ [][NextLoop]_vars

\* ------------------------------------------- actions: the request middleware
\* the collector state the middleware's callbacks work on
HttpState ==
  [buffer |-> metrics_buffer, history |-> history, created |-> created,
   request_counts |-> request_counts, response_times |-> response_times,
   error_counts |-> error_counts]

Served == IF req.some THEN req.val.n ELSE 0
NoRequest == IF req.some THEN req.val.phase = "done" ELSE TRUE

\* A request arrives and _before_request runs (lines 43-60); the view is
\* dispatched next.
BeforeRequest(request, id) ==
  /\ NoRequest
  /\ Served < MaxRequests
  /\ \E st \in {BeforeRequestIn(HttpState, request)} :
       /\ metrics_buffer' = st.buffer
       /\ history' = st.history
       /\ created' = st.created
  /\ req' = Some([n |-> Served + 1, phase |-> "dispatch", request |-> request,
                  g |-> BeforeRequestG(wall, id), response |-> None, exception |-> None,
                  returned |-> None, after_raised |-> FALSE, reraised |-> None,
                  took |-> 0, base |-> Len(history)])
  /\ UNCHANGED <<moreVars, read, now, threadVars, get_args, returned, cleaned, healthVars, probeVars,
                 loopVars, alertVars, mw_config, wall, request_counts, response_times,
                 error_counts>>

\* A request arrives and a before_request function registered ahead of the
\* middleware's answers it: _before_request does not run, the view is not
\* dispatched, and the after_request functions get that response.
AnsweredBeforeMiddleware(request, response) ==
  /\ NoRequest
  /\ Served < MaxRequests
  /\ req' = Some([n |-> Served + 1, phase |-> "after", request |-> request,
                  g |-> EmptyG, response |-> Some(response), exception |-> None,
                  returned |-> None, after_raised |-> FALSE, reraised |-> None,
                  took |-> 0, base |-> Len(history)])
  /\ UNCHANGED <<moreVars, read, now, storeVars, threadVars, get_args, returned, cleaned, healthVars,
                 probeVars, loopVars, alertVars, mw_config, wall, request_counts,
                 response_times, error_counts>>

\* The view returns a response after d.
HandlerReturns(response, d) ==
  /\ req.some /\ req.val.phase = "dispatch"
  /\ wall' = wall + d
  /\ req' = Some([req.val EXCEPT !.phase = "after", !.response = Some(response),
                                 !.took = d])
  /\ UNCHANGED <<moreVars, read, now, storeVars, threadVars, get_args, returned, cleaned, healthVars,
                 probeVars, loopVars, alertVars, mw_config, request_counts,
                 response_times, error_counts>>

\* The view raises an exception after d; the framework looks up the handler
\* registered for Exception (line 36).
HandlerRaises(error, d) ==
  /\ req.some /\ req.val.phase = "dispatch"
  /\ wall' = wall + d
  /\ req' = Some([req.val EXCEPT !.phase = "error", !.exception = Some(error),
                                 !.took = d])
  /\ UNCHANGED <<moreVars, read, now, storeVars, threadVars, get_args, returned, cleaned, healthVars,
                 probeVars, loopVars, alertVars, mw_config, request_counts,
                 response_times, error_counts>>

\* _after_request(response), lines 62-116
AfterRequest ==
  /\ req.some /\ req.val.phase = "after"
  /\ \E res \in {AfterRequestIn(HttpState, mw_config, req.val.g, req.val.request,
                               req.val.response.val, wall)} :
       /\ metrics_buffer' = res.st.buffer
       /\ history' = res.st.history
       /\ created' = res.st.created
       /\ request_counts' = res.st.request_counts
       /\ response_times' = res.st.response_times
       /\ error_counts' = res.st.error_counts
       /\ req' = Some([req.val EXCEPT
                         !.phase = "teardown",
                         !.returned = IF res.raised THEN None ELSE Some(res.response),
                         !.after_raised = res.raised])
  /\ UNCHANGED <<moreVars, read, now, threadVars, get_args, returned, cleaned, healthVars, probeVars,
                 loopVars, alertVars, mw_config, wall>>

\* _handle_exception(error), lines 133-159
HandleException ==
  /\ req.some /\ req.val.phase = "error"
  /\ \E res \in {HandleExceptionIn(HttpState, req.val.request, req.val.exception.val)} :
       /\ metrics_buffer' = res.st.buffer
       /\ history' = res.st.history
       /\ created' = res.st.created
       /\ req' = Some([req.val EXCEPT !.phase = "teardown", !.reraised = res.raised])
  /\ UNCHANGED <<moreVars, read, now, threadVars, get_args, returned, cleaned, healthVars, probeVars,
                 loopVars, alertVars, mw_config, wall, request_counts, response_times,
                 error_counts>>

\* _teardown(exception), lines 118-131, when the app context is popped
Teardown ==
  /\ req.some /\ req.val.phase = "teardown"
  /\ \E st \in {TeardownIn(HttpState, req.val.request, req.val.reraised)} :
       /\ metrics_buffer' = st.buffer
       /\ history' = st.history
       /\ created' = st.created
  /\ req' = Some([req.val EXCEPT !.phase = "done"])
  /\ UNCHANGED <<moreVars, read, now, threadVars, get_args, returned, cleaned, healthVars, probeVars,
                 loopVars, alertVars, mw_config, wall, request_counts, response_times,
                 error_counts>>

InitHttp ==
  /\ InitState
  /\ servers = DefaultServers
  /\ alert_thresholds = <<>>
  /\ mw_config \in MwConfigs

NextHttp ==
  \/ \E request \in Requests, id \in RequestIds : BeforeRequest(request, id)
  \/ \E request \in Requests, response \in Responses :
       AnsweredBeforeMiddleware(request, response)
  \/ \E response \in Responses, d \in Durations : HandlerReturns(response, d)
  \/ \E error \in ErrorTypes, d \in Durations : HandlerRaises(error, d)
  \/ AfterRequest
  \/ HandleException
  \/ Teardown

SpecHttp == InitHttp /\ [][NextHttp]_vars

\* ------------------------------------------- summary, exporters, dashboard
\* What a read path works on and hands back: the store and the health table
\* as the call leaves them, and what the call returns (`result`) or raises.
Reading(buf, hs) ==
  [buffer |-> buf, health_status |-> hs, raised |-> FALSE, exception |-> "-",
   result |-> <<>>]

\* get_health_status, lines 301-304: dict.copy(), a new dict with the same items
GetHealthStatusIn(st) == [st EXCEPT !.result = st.health_status]

\* line 309-310: the observations not older than five minutes.  Timestamps
\* are whole hours, so both sides are taken in minutes.
RecentMetrics(buf, n) ==
  SelectSeq(buf, LAMBDA m : m.timestamp * 60 >= n * 60 - SummaryMinutes)

\* lines 316-318: defaultdict(list), the values of each name in buffer order
RECURSIVE MetricGroupsFrom(_, _, _)
MetricGroupsFrom(ms, i, groups) ==
  IF i > Len(ms) THEN groups
  ELSE MetricGroupsFrom(ms, i + 1,
         DictSet(groups, ms[i].name, Append(DictGetOr(groups, ms[i].name, <<>>), ms[i].value)))

\* sum(values)
RECURSIVE SumOf(_)
SumOf(values) == IF values = <<>> THEN 0 ELSE values[1] + SumOf(Tail(values))

\* faulty variant of SummaryStats: latest is the first value of the group
SummaryStatsOldest(values) ==
  LET vs == {values[i] : i \in 1..Len(values)}
  IN  [count |-> Len(values),
       avg |-> [num |-> SumOf(values), den |-> Len(values)],
       min |-> CHOOSE v \in vs : \A w \in vs : v <= w,
       max |-> CHOOSE v \in vs : \A w \in vs : v >= w,
       latest |-> values[1]]

\* lines 324-330: the entry of one name.  avg is the quotient
\* sum(values) / len(values), kept as numerator and denominator.
SummaryStats(values) ==
  LET vs == {values[i] : i \in 1..Len(values)}
  IN  [count |-> Len(values),
       avg |-> [num |-> SumOf(values), den |-> Len(values)],
       min |-> CHOOSE v \in vs : \A w \in vs : v <= w,
       max |-> CHOOSE v \in vs : \A w \in vs : v >= w,
       latest |-> values[Len(values)]]

\* get_summary_stats, lines 306-332, at time n: {} without recent observations
GetSummaryStatsAt(buf, n) ==
  LET groups == MetricGroupsFrom(RecentMetrics(buf, n), 1, <<>>)
  IN  [i \in 1..Len(groups) |-> [k |-> groups[i].k, v |-> SummaryStats(groups[i].v)]]

GetSummaryStatsIn(st) == [st EXCEPT !.result = GetSummaryStatsAt(st.buffer, now)]

\* A text is a sequence of strings whose concatenation it is: characters
\* where the code looks into the text, longer pieces for literals and keys.
\* sep.join(parts)
RECURSIVE JoinStr(_, _)
JoinStr(parts, sep) ==
  IF parts = <<>> THEN <<>>
  ELSE IF Len(parts) = 1 THEN parts[1]
  ELSE parts[1] \o sep \o JoinStr(Tail(parts), sep)

\* faulty variant of LatestMetricsFrom: every observation overwrites the entry of its name
RECURSIVE LatestMetricsOverwritten(_, _, _)
LatestMetricsOverwritten(buf, i, latest) ==
  IF i < 1 THEN latest
  ELSE LatestMetricsOverwritten(buf, i - 1, DictSet(latest, buf[i].name, buf[i]))

\* lines 389-392: for metric in reversed(self.metrics_buffer), the first
\* observation met under each name is kept
RECURSIVE LatestMetricsFrom(_, _, _)
LatestMetricsFrom(buf, i, latest) ==
  IF i < 1 THEN latest
  ELSE LatestMetricsFrom(buf, i - 1,
         IF DictGet(latest, buf[i].name).some THEN latest
         ELSE DictSet(latest, buf[i].name, buf[i]))

\* lines 396-398: ','.join of k="v", in braces unless empty
TagsStr(tags) ==
  LET s == JoinStr([i \in 1..Len(tags) |-> <<tags[i].k, "=", "\"">> \o tags[i].v \o <<"\"">>],
                   <<",">>)
  IN  IF s = <<>> THEN s ELSE <<"{">> \o s \o <<"}">>

\* lines 395-400: the line of one metric
PrometheusLine(metric) ==
  <<"notyyet_">> \o StrReplace(StrReplace(metric.name, ".", "_"), "-", "_")
    \o TagsStr(metric.tags) \o <<" ">> \o IntToStr(metric.value)

\* _export_prometheus, lines 381-402
ExportPrometheus(buf) ==
  LET latest == LatestMetricsFrom(buf, Len(buf), <<>>)
  IN  JoinStr(<<<<"# HELP", " notyyet_system_metrics System metrics from Not-Yet platform">>,
                <<"# TYPE", " notyyet_system_metrics gauge">>>>
              \o [i \in 1..Len(latest) |-> PrometheusLine(latest[i].v)],
              <<"\n">>)

\* datetime.isoformat() of a time in whole hours
IsoFormat(t) == <<"T">> \o IntToStr(t) \o <<":", "0", "0">>

\* faulty variant of JsonMetricsData: the newest observation first
JsonMetricsDataReversed(buf) ==
  [i \in 1..Len(buf) |->
     [name |-> buf[Len(buf) + 1 - i].name, value |-> buf[Len(buf) + 1 - i].value,
      timestamp |-> IsoFormat(buf[Len(buf) + 1 - i].timestamp),
      tags |-> buf[Len(buf) + 1 - i].tags]]

\* lines 360-367: metrics_data, built under the lock
JsonMetricsData(buf) ==
  [i \in 1..Len(buf) |->
     [name |-> buf[i].name, value |-> buf[i].value,
      timestamp |-> IsoFormat(buf[i].timestamp), tags |-> buf[i].tags]]

\* lines 369-372: health_data, asdict with last_check as text
JsonHealthData(hs) ==
  [i \in 1..Len(hs) |-> [k |-> hs[i].k, v |-> [hs[i].v EXCEPT !.last_check = IsoFormat(@)]]]

\* lines 374-379: the document json.dumps renders
JsonDocument(metrics_data, health_data, summary, n) ==
  [metrics |-> metrics_data, health |-> health_data, summary |-> summary,
   exported_at |-> IsoFormat(n)]

\* faulty variant of ExportMetricsIn: an export that empties the buffer it rendered
ExportMetricsDrains(st, format) ==
  [st EXCEPT !.buffer = <<>>,
             !.result = JsonDocument(JsonMetricsData(st.buffer),
                                     JsonHealthData(st.health_status),
                                     GetSummaryStatsAt(st.buffer, now), now)]

\* export_metrics, lines 347-354, as one call with nothing running beside it
ExportMetricsIn(st, format) ==
  IF format = "json"
  THEN [st EXCEPT !.result = JsonDocument(JsonMetricsData(st.buffer),
                                          JsonHealthData(st.health_status),
                                          GetSummaryStatsAt(st.buffer, now), now)]
  ELSE IF format = "prometheus" THEN [st EXCEPT !.result = ExportPrometheus(st.buffer)]
  ELSE [st EXCEPT !.raised = TRUE, !.exception = "ValueError",
                  !.result = <<"Unsupported format: ", format>>]

\* faulty variant of MetricsEndpointIn: the export's exception is not caught
MetricsEndpointUncaught(st, format_arg) ==
  ExportMetricsIn(st, IF format_arg.some THEN format_arg.val ELSE "prometheus")

\* The servers' endpoints are those of a process in which the monitoring
\* package could be imported (MONITORING_AVAILABLE); the other process has no
\* collector and no HealthCheckManager.
\* metrics_endpoint, kali_server.py lines 705-721 (perplexity_server.py
\* lines 163-179 are the same): format_arg is the 'format' query parameter
MetricsEndpointIn(st, format_arg) ==
  LET format_type == IF format_arg.some THEN format_arg.val ELSE "prometheus"
      ex == ExportMetricsIn(st, format_type)
  IN  IF ex.raised
      THEN [ex EXCEPT !.raised = FALSE, !.exception = "-",
                      !.result = [status |-> 500, content_type |-> "application/json",
                                  body |-> [error |-> ex.result]]]
      ELSE [ex EXCEPT !.result =
              [status |-> 200,
               content_type |-> IF format_type = "prometheus" THEN "text/plain"
                                ELSE "application/json",
               body |-> ex.result]]

\* faulty variant of HealthEndpointResponse: the status code is always 200
HealthEndpointAlwaysOk(health_results) ==
  [status |-> 200,
   body |-> [status |-> IF health_results.overall_healthy THEN "healthy" ELSE "unhealthy",
             message |-> "Kali Linux Tools API Server",
             health_checks |-> health_results.checks,
             overall_healthy |-> health_results.overall_healthy,
             timestamp |-> health_results.timestamp]]

\* health_endpoint, kali_server.py lines 667-702 (perplexity_server.py lines
\* 133-153 answer alike), given what run_all_checks returned
HealthEndpointResponse(health_results) ==
  [status |-> IF health_results.overall_healthy THEN 200 ELSE 503,
   body |-> [status |-> IF health_results.overall_healthy THEN "healthy" ELSE "unhealthy",
             message |-> "Kali Linux Tools API Server",
             health_checks |-> health_results.checks,
             overall_healthy |-> health_results.overall_healthy,
             timestamp |-> health_results.timestamp]]

\* ---------------------------------------------------- MonitoringDashboard
\* the names of MonitoringDashboard.servers, dashboard.py lines 26-29
DashboardServers == <<Kali, Perplexity>>

\* s.startswith(p)
StartsWith(s, p) == IF Len(p) <= Len(s) THEN SubSeq(s, 1, Len(p)) = p ELSE FALSE

\* [m.value for m in ms]
Values(ms) == [i \in 1..Len(ms) |-> ms[i].value]

\* get_metrics(time_range=timedelta(minutes=...)).  Timestamps are whole
\* hours: one is before now - minutes exactly if it is before the hour
\* now - minutes \div 60.
GetMetricsMinutes(buf, minutes) == FilteredMetrics(buf, now - (minutes \div 60), None)

\* _get_system_overview, dashboard.py lines 85-129; a quotient is kept as
\* numerator and denominator
GetSystemOverviewIn(st) ==
  LET recent == GetMetricsMinutes(st.buffer, 5)
      hs == GetHealthStatusIn(st).result
      request_metrics == SelectSeq(recent, LAMBDA m : StrContains(StrRequests, m.name))
      response_time_metrics ==
        SelectSeq(recent, LAMBDA m : StrContains(StrResponseTime, m.name)
                                       \/ StrContains(StrDuration, m.name))
      error_metrics ==
        SelectSeq(recent, LAMBDA m : StrContains(<<"e", "r", "r", "o", "r">>, m.name))
      total_requests == SumOf(Values(request_metrics))
      healthy_servers == Cardinality({i \in 1..Len(hs) : hs[i].v.status = "healthy"})
  IN  [st EXCEPT !.result =
         [total_requests |-> total_requests,
          avg_response_time |->
            IF response_time_metrics # <<>>
            THEN [num |-> SumOf(Values(response_time_metrics)),
                  den |-> Len(response_time_metrics)]
            ELSE [num |-> 0, den |-> 1],
          error_rate |-> IF total_requests > 0
                         THEN [num |-> SumOf(Values(error_metrics)), den |-> total_requests]
                         ELSE [num |-> 0, den |-> 1],
          system_health |-> IF healthy_servers = Len(DashboardServers) THEN "healthy"
                            ELSE IF healthy_servers > 0 THEN "degraded"
                            ELSE "unhealthy",
          active_servers |-> healthy_servers,
          total_servers |-> Len(DashboardServers),
          last_updated |-> IsoFormat(now)]]

\* lines 153-181: the group a metric is listed under, "-" for none
MetricGroup(name) ==
  IF StartsWith(name, <<"s", "y", "s", "t", "e", "m", ".">>) THEN "system"
  ELSE IF StartsWith(name, <<"h", "t", "t", "p", ".">>) \/ StrContains(StrResponseTime, name)
  THEN "http"
  ELSE IF StartsWith(name, <<"t", "o", "o", "l", ".">>) THEN "tools"
  ELSE IF StrContains(<<"e", "r", "r", "o", "r">>, name) THEN "errors"
  ELSE "-"

\* _get_metrics_data, dashboard.py lines 131-187; range_mapping in minutes
GetMetricsDataIn(st, time_range) ==
  LET minutes == CASE time_range = "5m" -> 5
                   [] time_range = "15m" -> 15
                   [] time_range = "1h" -> 60
                   [] time_range = "6h" -> 360
                   [] time_range = "24h" -> 1440
                   [] OTHER -> 60
      metrics == GetMetricsMinutes(st.buffer, minutes)
      Listed(group) == JsonMetricsData(SelectSeq(metrics, LAMBDA m : MetricGroup(m.name) = group))
  IN  [st EXCEPT !.result =
         [time_range |-> time_range,
          metrics |-> [system |-> Listed("system"), http |-> Listed("http"),
                       tools |-> Listed("tools"), errors |-> Listed("errors")],
          total_count |-> Len(metrics)]]

\* _get_health_data, dashboard.py lines 189-217
GetHealthDataIn(st) ==
  LET hs == GetHealthStatusIn(st).result
      unhealthy_count == Cardinality({i \in 1..Len(hs) : hs[i].v.status # "healthy"})
  IN  [st EXCEPT !.result =
         [overall_status |-> IF unhealthy_count = Len(hs) THEN "unhealthy"
                             ELSE IF unhealthy_count > 0 THEN "degraded"
                             ELSE "healthy",
          servers |-> [i \in 1..Len(hs) |->
                         [k |-> hs[i].k,
                          v |-> [status |-> hs[i].v.status,
                                 last_check |-> IsoFormat(hs[i].v.last_check),
                                 response_time |-> hs[i].v.response_time,
                                 error_message |-> hs[i].v.error_message,
                                 tools_status |-> hs[i].v.tools_status]]],
          last_updated |-> IsoFormat(now)]]

\* _get_alerts_data, dashboard.py lines 242-287: an error rate above 5 %,
\* then every cpu or memory observation above 90
GetAlertsDataIn(st) ==
  LET recent == GetMetricsMinutes(st.buffer, 10)
      total_errors ==
        SumOf(Values(SelectSeq(recent,
                               LAMBDA m : StrContains(<<"e", "r", "r", "o", "r">>, m.name))))
      total_requests ==
        SumOf(Values(SelectSeq(recent, LAMBDA m : StrContains(StrRequests, m.name))))
      system_metrics ==
        SelectSeq(recent, LAMBDA m : StartsWith(m.name, <<"s", "y", "s", "t", "e", "m", ".">>)
                                       /\ (StrContains(<<"c", "p", "u">>, m.name)
                                           \/ StrContains(<<"m", "e", "m", "o", "r", "y">>,
                                                          m.name))
                                       /\ m.value > 90)
      alerts ==
        (IF total_requests > 0 /\ total_errors * 100 > 5 * total_requests
         THEN <<[severity |-> "warning", about |-> <<"e", "r", "r", "o", "r">>,
                 timestamp |-> IsoFormat(now)]>>
         ELSE <<>>)
        \o [i \in 1..Len(system_metrics) |->
              [severity |-> "critical", about |-> system_metrics[i].name,
               timestamp |-> IsoFormat(system_metrics[i].timestamp)]]
  IN  [st EXCEPT !.result = [alerts |-> alerts, count |-> Len(alerts)]]

\* What GET {server_url}/status can do, as for /health
StatusResponses ==
  {HealthResponse("response", HttpOk, "object", "-", <<>>, "-", "-", 1),
   HealthResponse("response", HttpOk, "not_json", "-", <<>>, "RequestException", "-", 1),
   HealthResponse("response", HttpOk, "not_json", "-", <<>>, "ValueError", "-", 1),
   HealthResponse("response", 503, "object", "-", <<>>, "-", "-", 1),
   HealthResponse("raises", 0, "-", "-", <<>>, "-", "ConnectTimeout", 5)}

\* dashboard.py lines 224-238: the entry of one server, or the exception
\* that leaves the try block (only requests.RequestException is caught)
ServerStatus(r) ==
  IF r.kind = "raises"
  THEN [raised |-> FALSE, entry |-> [status |-> "unreachable", error |-> <<r.error, 0>>]]
  ELSE IF r.status_code # HttpOk
  THEN [raised |-> FALSE,
        entry |-> [status |-> "unreachable", error |-> <<"HTTP", r.status_code>>]]
  ELSE IF r.body # "not_json"
  THEN [raised |-> FALSE, entry |-> [status |-> "running", json |-> r.body]]
  ELSE IF r.decode_error = "RequestException"
  THEN [raised |-> FALSE,
        entry |-> [status |-> "unreachable", error |-> <<"JSONDecodeError", 0>>]]
  ELSE [raised |-> TRUE, entry |-> [status |-> "-", error |-> <<"ValueError", 0>>]]

\* _get_servers_data, dashboard.py lines 219-240; answers[i] is what the
\* i-th server's /status does
RECURSIVE GetServersDataFrom(_, _, _)
GetServersDataFrom(st, answers, i) ==
  IF i > Len(DashboardServers) THEN st
  ELSE IF ServerStatus(answers[i]).raised
  THEN [st EXCEPT !.raised = TRUE, !.exception = "ValueError"]
  ELSE GetServersDataFrom(
         [st EXCEPT !.result = DictSet(@, DashboardServers[i], ServerStatus(answers[i]).entry)],
         answers, i + 1)

\* ------------------------------------------------- actions: the read paths
\* A read path called by a single caller, as one step: `read` holds the call
\* and what it gave until the caller's next call.  r is the Reading the call
\* ends with.
ReadCall(op, arg, r) ==
  /\ \E st \in {r} :
       /\ read' = Some([op |-> op, arg |-> arg, pc |-> "done", raised |-> st.raised,
                        exception |-> st.exception, result |-> st.result])
       /\ metrics_buffer' = st.buffer
       /\ health_status' = st.health_status
  /\ get_args' = None
  /\ returned' = None
  /\ UNCHANGED <<moreVars, now, history, created, threadVars, cleaned, healthVars, servers, probe,
                 probes, loopVars, alertVars, httpVars>>

GetHealthStatus ==
  ReadCall("get_health_status", "-", GetHealthStatusIn(Reading(metrics_buffer, health_status)))

GetSummaryStats ==
  ReadCall("get_summary_stats", "-", GetSummaryStatsIn(Reading(metrics_buffer, health_status)))

ExportMetrics(format) ==
  ReadCall("export_metrics", format,
           ExportMetricsIn(Reading(metrics_buffer, health_status), format))

\* GET /metrics, with or without ?format=
MetricsEndpoint(format_arg) ==
  ReadCall("metrics_endpoint", format_arg,
           MetricsEndpointIn(Reading(metrics_buffer, health_status), format_arg))

GetSystemOverview ==
  ReadCall("_get_system_overview", "-",
           GetSystemOverviewIn(Reading(metrics_buffer, health_status)))

GetMetricsData(time_range) ==
  ReadCall("_get_metrics_data", time_range,
           GetMetricsDataIn(Reading(metrics_buffer, health_status), time_range))

GetHealthData ==
  ReadCall("_get_health_data", "-", GetHealthDataIn(Reading(metrics_buffer, health_status)))

GetAlertsData ==
  ReadCall("_get_alerts_data", "-", GetAlertsDataIn(Reading(metrics_buffer, health_status)))

GetServersData(answers) ==
  ReadCall("_get_servers_data", answers,
           GetServersDataFrom(Reading(metrics_buffer, health_status), answers, 1))

\* answers of a server's /health that make a record: healthy and unhealthy
DashboardAnswers ==
  {r \in HealthResponses : r.status_code = HttpOk /\ r.body = "object"
                             /\ r.status \in {"healthy", "degraded"} /\ r.tools_status = <<>>}

\* the 'format' values a caller passes
Formats == {"json", "prometheus", "xml"}

\* Names with the characters the exporter replaces, and one with a line
\* break: add_metric takes any string (the middleware's tags and endpoint
\* names carry request.path).
ExportNames == {<<"a", ".", "b">>, <<"a", "-", "\n">>}
\* a value with its tags
ExportInputs ==
  {[value |-> 3, tags |-> None],
   [value |-> 12, tags |-> Some(<<[k |-> "unit", v |-> <<"s">>]>>)]}

NextExport ==
  \/ TickCall
  \/ \E name \in ExportNames, m \in ExportInputs : AddMetric(name, m.value, m.tags)
  \/ CleanupCall
  \/ \E format \in Formats : ExportMetrics(format)
  \/ \E format_arg \in {None, Some("json"), Some("xml")} : MetricsEndpoint(format_arg)
  \/ GetSummaryStats

SpecExport == Init /\ [][NextExport]_vars

\* ------------------------------- actions: export_metrics('json') in a thread
\* _export_json beside a writer and the collection thread's probes, step by
\* step, within one hour.  read.val.pc is where the exporting thread stands; at_lock is
\* the buffer as it stood when metrics_data was built.
\* lines 358-367: metrics_data, under the lock
ExportJsonMetrics ==
  /\ ~read.some
  /\ read' = Some([op |-> "_export_json", arg |-> "-", pc |-> "items", raised |-> FALSE,
                   exception |-> "-", result |-> <<>>,
                   metrics_data |-> JsonMetricsData(metrics_buffer),
                   at_lock |-> metrics_buffer, items |-> 0, health_data |-> <<>>])
  /\ UNCHANGED <<moreVars, now, storeVars, threadVars, get_args, returned, cleaned, healthVars, probeVars,
                 loopVars, alertVars, httpVars>>

\* line 370: self.health_status.items() is iterated without the lock; the
\* iterator remembers the size of the dict
ExportJsonItems ==
  /\ read.some
  /\ read.val.pc = "items"
  /\ read' = Some([read.val EXCEPT !.pc = "health", !.items = Len(health_status)])
  /\ UNCHANGED <<moreVars, now, storeVars, threadVars, get_args, returned, cleaned, healthVars, probeVars,
                 loopVars, alertVars, httpVars>>

\* lines 370-372: the loop ends; a dict that grew since the iterator was made
\* makes its next() raise RuntimeError, which ends export_metrics
ExportJsonHealth ==
  /\ read.some
  /\ read.val.pc = "health"
  /\ read' = IF Len(health_status) # read.val.items
             THEN Some([read.val EXCEPT !.pc = "done", !.raised = TRUE,
                                        !.exception = "RuntimeError"])
             ELSE Some([read.val EXCEPT !.pc = "summary",
                                        !.health_data = JsonHealthData(health_status)])
  /\ UNCHANGED <<moreVars, now, storeVars, threadVars, get_args, returned, cleaned, healthVars, probeVars,
                 loopVars, alertVars, httpVars>>

\* lines 374-379: get_summary_stats takes the lock again; the document
ExportJsonSummary ==
  /\ read.some
  /\ read.val.pc = "summary"
  /\ read' = Some([read.val EXCEPT
                     !.pc = "done",
                     !.result = JsonDocument(read.val.metrics_data, read.val.health_data,
                                             GetSummaryStatsAt(metrics_buffer, now), now)])
  /\ UNCHANGED <<moreVars, now, storeVars, threadVars, get_args, returned, cleaned, healthVars, probeVars,
                 loopVars, alertVars, httpVars>>

NextJson ==
  \/ \E name \in MetricNames, value \in MetricValues, tags \in TagInputs :
       AddMetricCreate("w1", name, value, tags)
  \/ AddMetricAppend("w1")
  \/ \E r \in DashboardAnswers : CheckServerHealth(1, r)
  \/ ExportJsonMetrics
  \/ ExportJsonItems
  \/ ExportJsonHealth
  \/ ExportJsonSummary

SpecJson == Init /\ [][NextJson]_vars

\* ------------------------------------------------ actions: GET /health
\* health_endpoint: run_all_checks (as RunAllChecks) and the response
HealthEndpoint ==
  /\ runs < MaxRuns
  /\ \E run \in {RunChecksFrom(custom_checks, 1,
                   [results |-> <<>>, overall_healthy |-> TRUE, invoked |-> <<>>,
                    aborted |-> FALSE, buffer |-> metrics_buffer, history |-> history,
                    created |-> created])} :
       \E health_results \in {[overall_healthy |-> run.overall_healthy,
                               checks |-> run.results, timestamp |-> now]} :
         /\ health_result' = Some(health_results)
         /\ invoked' = run.invoked
         /\ metrics_buffer' = run.buffer
         /\ history' = run.history
         /\ created' = run.created
         /\ read' = Some([op |-> "health_endpoint", arg |-> "-", pc |-> "done",
                          raised |-> FALSE, exception |-> "-",
                          result |-> HealthEndpointResponse(health_results)])
  /\ run_base' = Len(history)
  /\ runs' = runs + 1
  /\ UNCHANGED <<moreVars, now, threadVars, get_args, returned, cleaned, custom_checks, registrations,
                 extVars>>

NextHealthEndpoint ==
  \/ Tick
  \/ \E name \in CheckNames, check_func \in CheckFuncs : RegisterCheck(name, check_func)
  \/ HealthEndpoint

SpecHealthEndpoint == Init /\ [][NextHealthEndpoint]_vars

\* ------------------------------------------------ actions: the dashboard
\* The views are taken within the hour of the observations, and a probe runs
\* between two calls of the caller, once it has let go of the last result.
\* observations the dashboard's views tell apart
DashboardMetrics ==
  {[name |-> <<"s", "y", "s", "t", "e", "m", ".", "c", "p", "u">>, value |-> 95],
   [name |-> StrApi \o <<".", "x", ".">> \o StrRequests, value |-> 1],
   [name |-> StrHttpErrorsCount, value |-> 1]}

NextDashboard ==
  \/ \E m \in DashboardMetrics : AddMetric(m.name, m.value, None)
  \/ \E i \in 1..Len(servers), r \in DashboardAnswers :
       ~read.some /\ ~returned.some /\ CheckServerHealth(i, r)
  \/ \E d \in {None, Some(2)} : GetMetrics(None, d)
  \/ GetHealthStatus
  \/ GetSummaryStats
  \/ \E format \in Formats : ExportMetrics(format)
  \/ GetSystemOverview
  \/ \E time_range \in {"5m", "week"} : GetMetricsData(time_range)
  \/ GetHealthData
  \/ GetAlertsData
  \/ \E a \in StatusResponses, first \in BOOLEAN :
       \E ok \in {r \in StatusResponses : r.status_code = HttpOk /\ r.body = "object"} :
         GetServersData(IF first THEN <<a, ok>> ELSE <<ok, a>>)

SpecDashboard == Init /\ [][NextDashboard]_vars

\* ------------------------------------ actions: writes around stop_collection
NextShutdown ==
  \/ NextLoop
  \/ \E name \in MetricNames, value \in MetricValues, tags \in TagInputs :
       AddMetric(name, value, tags)

SpecShutdown == Init /\ [][NextShutdown]_vars


\* ------------------------------- actions: concurrent get_metrics_collector
\* Each caller makes its first call of get_metrics_collector; the calls
\* interleave between the reads and writes of the global and of is_running.
\* line 410: `if _metrics_collector is None`
GmcCheck(t) ==
  /\ calls[t].pc = "idle"
  /\ calls' = [calls EXCEPT ![t].pc = IF metrics_collector = 0 THEN "construct" ELSE "return"]
  /\ UNCHANGED <<metrics_collector, instances, components>>
  /\ UNCHANGED <<singleVars, rr, lockVars>>

\* line 411: MetricsCollector() is constructed and bound to the global
GmcConstruct(t) ==
  /\ calls[t].pc = "construct"
  /\ Len(instances) < MaxInstances
  /\ instances' = Append(instances, NewCollector)
  /\ metrics_collector' = Len(instances) + 1
  /\ calls' = [calls EXCEPT ![t].pc = "start"]
  /\ UNCHANGED components
  /\ UNCHANGED <<singleVars, rr, lockVars>>

\* line 412 and start_collection's line 110: the global is read again and
\* the flag of the collector it now names is tested
GmcStart(t) ==
  /\ calls[t].pc = "start"
  /\ calls' = [calls EXCEPT
                 ![t].pc = IF instances[metrics_collector].is_running THEN "return"
                           ELSE "start_set",
                 ![t].self = metrics_collector]
  /\ UNCHANGED <<metrics_collector, instances, components>>
  /\ UNCHANGED <<singleVars, rr, lockVars>>

\* start_collection, lines 114-116: the flag is set and a thread started
GmcStartSet(t) ==
  /\ calls[t].pc = "start_set"
  /\ instances' = [instances EXCEPT ![calls[t].self] = StartThreadOn(@)]
  /\ calls' = [calls EXCEPT ![t].pc = "return"]
  /\ UNCHANGED <<metrics_collector, components>>
  /\ UNCHANGED <<singleVars, rr, lockVars>>

\* line 413: `return _metrics_collector`
GmcReturn(t) ==
  /\ calls[t].pc = "return"
  /\ calls' = [calls EXCEPT ![t].pc = "done", ![t].ret = metrics_collector]
  /\ UNCHANGED <<metrics_collector, instances, components>>
  /\ UNCHANGED <<singleVars, rr, lockVars>>

NextSingleton ==
  \E t \in Callers :
    GmcCheck(t) \/ GmcConstruct(t) \/ GmcStart(t) \/ GmcStartSet(t) \/ GmcReturn(t)

SpecSingleton == Init /\ [][NextSingleton]_vars

\* ------------------------------------ actions: re-initialization
\* One thread, as in a test's setUp: components are constructed, the global
\* collector is replaced, and observations are written through the components
\* and through the decorators.
\* MonitoringMiddleware.__init__ (middleware.py lines 22-24) and
\* HealthCheckManager.__init__ (lines 285-287):
\* self.metrics_collector = get_metrics_collector()
ConstructComponent(comp) ==
  /\ components[comp] = 0
  /\ \E g \in {GetMetricsCollectorIn(GlobalState)} :
       /\ metrics_collector' = g.current
       /\ instances' = g.instances
       /\ components' = [components EXCEPT ![comp] = g.current]
  /\ UNCHANGED calls
  /\ UNCHANGED <<singleVars, rr, lockVars>>

InitMetricsCollector ==
  /\ Len(instances) < MaxInstances
  /\ \E g \in {InitMetricsCollectorIn(GlobalState)} :
       /\ metrics_collector' = g.current
       /\ instances' = g.instances
  /\ UNCHANGED <<components, calls>>
  /\ UNCHANGED <<singleVars, rr, lockVars>>

\* the name of an observation a component writes: http.requests.started
\* (middleware.py line 52), health_check.<name>.status (line 318)
ComponentMetric(comp) ==
  IF comp = "MonitoringMiddleware" THEN StrHttpRequestsStarted
  ELSE HealthMetricName(<<"d", "b">>, StrStatus)

\* self.metrics_collector.add_metric(...) in a method of the component
ComponentWrite(comp) ==
  /\ components[comp] # 0
  /\ TotalAppended(instances) < MaxAppends
  /\ instances' = CollectorAppend(instances, components[comp], ComponentMetric(comp))
  /\ UNCHANGED <<metrics_collector, components, calls>>
  /\ UNCHANGED <<singleVars, rr, lockVars>>

\* a function wrapped by monitor_tool_execution is called: lines 220-227,
\* collector = get_metrics_collector(), then tool.<tool>.executions.started
DecoratorWrite ==
  /\ TotalAppended(instances) < MaxAppends
  /\ \E g \in {GetMetricsCollectorIn(GlobalState)} :
       /\ metrics_collector' = g.current
       /\ instances' = CollectorAppend(g.instances, g.current,
                                       <<"t", "o", "o", "l", ".", "x">>)
  /\ UNCHANGED <<components, calls>>
  /\ UNCHANGED <<singleVars, rr, lockVars>>

NextReinit ==
  \/ \E comp \in Components : ConstructComponent(comp)
  \/ InitMetricsCollector
  \/ \E comp \in Components : ComponentWrite(comp)
  \/ DecoratorWrite

SpecReinit == Init /\ [][NextReinit]_vars

\* ------------------------------------- actions: monitor_tool_execution
ToolNames == {<<"n", "m", "a", "p">>}

\* A function wrapped by monitor_tool_execution(tool_name) is called and ends
\* with `outcome`; `read` holds the call: what it returned (the function's
\* result) or raised, and the length of history when it began.
ToolExecution(tool_name, outcome) ==
  /\ created < MaxAppends
  /\ \E st \in {ToolExecutionIn(CollectorState, tool_name, outcome)} :
       /\ metrics_buffer' = st.buffer
       /\ history' = st.history
       /\ created' = st.created
       /\ read' = Some([op |-> "monitor_tool_execution", arg |-> tool_name, pc |-> "done",
                        raised |-> st.raised, exception |-> st.exception,
                        result |-> outcome, outcome |-> outcome, before |-> Len(history)])
  /\ get_args' = None
  /\ returned' = None
  /\ UNCHANGED <<moreVars, now, threadVars, cleaned, healthVars, extVars>>

NextTool ==
  \/ TickCall
  \/ \E tool_name \in ToolNames, outcome \in ToolOutcomes : ToolExecution(tool_name, outcome)

SpecTool == Init /\ [][NextTool]_vars

\* --------------------------------------- actions: record_request, by threads
\* record_request takes no lock (lines 334-340); a thread can be preempted
\* between the load and the store of `d[endpoint] += 1`.
RecordRequestCall(w, endpoint, status_code) ==
  /\ rr[w].pc = "idle"
  /\ rr' = [rr EXCEPT ![w] = [pc |-> "load_requests", endpoint |-> endpoint,
                              status_code |-> status_code, value |-> 0]]
  /\ UNCHANGED <<singleVars, globalVars, lockVars>>

\* line 336, self.request_counts[endpoint] is read
RecordLoadRequests(w) ==
  /\ rr[w].pc = "load_requests"
  /\ request_counts' = DefaultDictTouch(request_counts, rr[w].endpoint, 0)
  /\ rr' = [rr EXCEPT ![w].pc = "store_requests",
                      ![w].value = DictGetOr(request_counts, rr[w].endpoint, 0)]
  /\ UNCHANGED <<globalVars, lockVars, read, now, storeVars, threadVars, get_args, returned,
                 cleaned, healthVars, probeVars, loopVars, alertVars, mw_config, wall, req,
                 response_times, error_counts>>

\* line 336, the sum is stored
RecordStoreRequests(w) ==
  /\ rr[w].pc = "store_requests"
  /\ request_counts' = DictSet(request_counts, rr[w].endpoint, rr[w].value + 1)
  /\ rr' = [rr EXCEPT ![w].pc = "append"]
  /\ UNCHANGED <<globalVars, lockVars, read, now, storeVars, threadVars, get_args, returned,
                 cleaned, healthVars, probeVars, loopVars, alertVars, mw_config, wall, req,
                 response_times, error_counts>>

\* line 337: list.append is one step; lines 339-340 follow for a status of
\* 400 and above
RecordAppendResponseTime(w) ==
  /\ rr[w].pc = "append"
  /\ response_times' = DictSet(response_times, rr[w].endpoint,
                               Append(DictGetOr(response_times, rr[w].endpoint, <<>>),
                                      12))
  /\ rr' = [rr EXCEPT ![w].pc = IF rr[w].status_code >= 400 THEN "load_errors"
                                ELSE "response_time"]
  /\ UNCHANGED <<globalVars, lockVars, read, now, storeVars, threadVars, get_args, returned,
                 cleaned, healthVars, probeVars, loopVars, alertVars, mw_config, wall, req,
                 request_counts, error_counts>>

\* line 340, self.error_counts[endpoint] is read
RecordLoadErrors(w) ==
  /\ rr[w].pc = "load_errors"
  /\ error_counts' = DefaultDictTouch(error_counts, rr[w].endpoint, 0)
  /\ rr' = [rr EXCEPT ![w].pc = "store_errors",
                      ![w].value = DictGetOr(error_counts, rr[w].endpoint, 0)]
  /\ UNCHANGED <<globalVars, lockVars, read, now, storeVars, threadVars, get_args, returned,
                 cleaned, healthVars, probeVars, loopVars, alertVars, mw_config, wall, req,
                 request_counts, response_times>>

\* line 340, the sum is stored
RecordStoreErrors(w) ==
  /\ rr[w].pc = "store_errors"
  /\ error_counts' = DictSet(error_counts, rr[w].endpoint, rr[w].value + 1)
  /\ rr' = [rr EXCEPT ![w].pc = "response_time"]
  /\ UNCHANGED <<globalVars, lockVars, read, now, storeVars, threadVars, get_args, returned,
                 cleaned, healthVars, probeVars, loopVars, alertVars, mw_config, wall, req,
                 request_counts, response_times>>

\* lines 343-345: the two add_metric calls, each appending under the lock
RecordAddMetric(w) ==
  /\ rr[w].pc \in {"response_time", "requests"}
  /\ \E st \in {AddMetricsIn(CollectorState,
                  IF rr[w].pc = "response_time"
                  THEN <<[name |-> StrApi \o <<".">> \o rr[w].endpoint \o <<".">> \o StrResponseTime,
                          value |-> 12,
                          tags |-> <<[k |-> "endpoint", v |-> rr[w].endpoint],
                                     [k |-> "status", v |-> IntToStr(rr[w].status_code)]>>]>>
                  ELSE <<[name |-> StrApi \o <<".">> \o rr[w].endpoint \o <<".">> \o StrRequests,
                          value |-> 1,
                          tags |-> <<[k |-> "endpoint", v |-> rr[w].endpoint]>>]>>)} :
         /\ metrics_buffer' = st.buffer
         /\ history' = st.history
         /\ created' = st.created
  /\ rr' = [rr EXCEPT ![w].pc = IF rr[w].pc = "response_time" THEN "requests" ELSE "done"]
  /\ UNCHANGED <<globalVars, lockVars, read, now, threadVars, get_args, returned,
                 cleaned, healthVars, probeVars, loopVars, alertVars, httpVars>>

NextRecord ==
  \/ \E w \in Writers, endpoint \in RecordEndpoints, status_code \in RecordStatusCodes :
       RecordRequestCall(w, endpoint, status_code)
  \/ \E w \in Writers :
       \/ RecordLoadRequests(w)
       \/ RecordStoreRequests(w)
       \/ RecordAppendResponseTime(w)
       \/ RecordLoadErrors(w)
       \/ RecordStoreErrors(w)
       \/ RecordAddMetric(w)

SpecRecord == Init /\ [][NextRecord]_vars

\* ------------------------------------------------- actions: the lock
\* A thread calls a method of the collector.
BeginOperation(t, op) ==
  /\ ops[t].op = "idle"
  /\ ops[t].calls < MaxCalls
  /\ ops' = [ops EXCEPT ![t] = [op |-> op, i |-> 1, calls |-> @.calls + 1]]
  /\ UNCHANGED <<singleVars, globalVars, rr, lock>>

\* `with self.lock:` is entered: Lock.acquire() returns once the lock is
\* free; a caller that holds it itself waits like any other, the lock is not
\* reentrant.
LockAcquire(t) ==
  /\ ops[t].op # "idle"
  /\ CurrentStep(ops[t]).kind = "acquire"
  /\ lock = 0
  /\ lock' = t
  /\ ops' = [ops EXCEPT ![t] = Advance(@)]
  /\ UNCHANGED <<singleVars, globalVars, rr>>

\* the with-block is left
LockRelease(t) ==
  /\ ops[t].op # "idle"
  /\ CurrentStep(ops[t]).kind = "release"
  /\ lock' = 0
  /\ ops' = [ops EXCEPT ![t] = Advance(@)]
  /\ UNCHANGED <<singleVars, globalVars, rr>>

\* a read or a write of a shared structure, or a local step
PlainStep(t) ==
  /\ ops[t].op # "idle"
  /\ CurrentStep(ops[t]).kind \in {"read", "write", "local"}
  /\ ops' = [ops EXCEPT ![t] = Advance(@)]
  /\ UNCHANGED <<singleVars, globalVars, rr, lock>>

\* line 197: the GET returns (it has a timeout of 10 s), and the method goes
\* on, or _http_health_check raises and the method ends
BlockingStep(t, raises) ==
  /\ ops[t].op # "idle"
  /\ CurrentStep(ops[t]).kind = "block"
  /\ ops' = [ops EXCEPT ![t] = IF raises THEN [@ EXCEPT !.op = "idle", !.i = 0]
                                ELSE Advance(@)]
  /\ UNCHANGED <<singleVars, globalVars, rr, lock>>

OperationStep(t) ==
  \/ LockAcquire(t)
  \/ LockRelease(t)
  \/ PlainStep(t)
  \/ \E raises \in BOOLEAN : BlockingStep(t, raises)

NextLock ==
  \/ \E t \in LockThreads, op \in Operations : BeginOperation(t, op)
  \/ \E t \in LockThreads : OperationStep(t)

SpecLock == Init /\ [][NextLock]_vars

\* The scheduler runs every thread that can take a step.
SpecLockFair == SpecLock /\ \A t \in LockThreads : WF_vars(OperationStep(t))

\* ================================================================== claims
Range(s) == {s[i] : i \in 1..Len(s)}
LastN(s, n) == SubSeq(s, IF Len(s) > n THEN Len(s) - n + 1 ELSE 1, Len(s))
AllIdle == \A w \in Writers : pc[w] = "idle"
FullyConstructed(m) ==
  /\ DOMAIN m = {"name", "value", "timestamp", "tags", "id"}
  /\ m.name \in MetricNames
  /\ m.value \in MetricValues
  /\ m.timestamp \in 0..MaxTime
  /\ m.id \in 1..created
\* s occurs in t as a contiguous block
OccursIn(s, t) ==
  \E i \in 1..(Len(t) + 1) : i + Len(s) - 1 <= Len(t) /\ SubSeq(t, i, i + Len(s) - 1) = s
NoPattern == returned.some /\ ~get_args.val.name_pattern.some
NoRange == returned.some /\ ~get_args.val.time_range.some

\* C1: the buffer never holds more than buffer_size observations; it is always
\* a suffix of what was appended; and as long as only add_metric has removed
\* anything, it is exactly the buffer_size most recently appended observations,
\* oldest first.
C1_CapacityKeepsMostRecent ==
  /\ Len(metrics_buffer) <= BufferSize
  /\ metrics_buffer = LastN(history, Len(metrics_buffer))
  /\ cleaned = 0 => metrics_buffer = LastN(history, BufferSize)

C1_Witness ==
  /\ Len(history) > BufferSize
  /\ cleaned = 0
  /\ Len(metrics_buffer) = BufferSize
  /\ history[1] \notin Range(metrics_buffer)

\* C2 (as claimed): whenever _cleanup_old_metrics returns, no retained
\* observation has a timestamp before the cutoff it computed.
C2_CleanupLeavesNothingOld ==
  [][CleanupReturn =>
       \A i \in 1..Len(metrics_buffer') : metrics_buffer'[i].timestamp >= cleanup_cutoff]_vars

\* C3 (as claimed): get_metrics() without arguments returns the whole buffer.
C3_NoFiltersReturnEverything ==
  (NoPattern /\ NoRange) => Elements(returned.val) = metrics_buffer

\* C3 (amended): get_metrics() without arguments returns, in insertion order,
\* the retained observations that are at most one hour old.
C3_NoFiltersReturnLastHour ==
  (NoPattern /\ NoRange) =>
    Elements(returned.val) =
      SelectSeq(metrics_buffer, LAMBDA m : m.timestamp >= now - 1)

C3_Witness ==
  /\ NoPattern /\ NoRange
  /\ Len(Elements(returned.val)) > 0
  /\ Len(Elements(returned.val)) < Len(metrics_buffer)

C5_ReturnedListIsSnapshot ==
  [][(returned.some /\ returned' = returned) =>
       ElementsNext(returned.val) = Elements(returned.val)]_vars

C5_Witness ==
  /\ returned.some
  /\ cleaned > 0
  /\ Len(history) > BufferSize
  /\ \E m \in Range(Elements(returned.val)) : m \notin Range(metrics_buffer)
  /\ \E m \in Range(metrics_buffer) : m \notin Range(Elements(returned.val))

\* C6: a get_metrics result holds only fully constructed, appended
\* observations, each at most once; and when all add_metric calls have returned
\* and neither eviction nor cleanup had to remove anything, the buffer holds
\* every created observation exactly once.
C6_NoLostOrDuplicatedAppend ==
  /\ returned.some =>
       /\ \A i, j \in 1..Len(Elements(returned.val)) :
            Elements(returned.val)[i].id = Elements(returned.val)[j].id => i = j
       /\ \A m \in Range(Elements(returned.val)) : FullyConstructed(m) /\ m \in Range(history)
  /\ (AllIdle /\ created <= BufferSize /\ cleaned = 0) =>
       /\ Len(metrics_buffer) = created
       /\ {m.id : m \in Range(metrics_buffer)} = 1..created

C6_Witness ==
  /\ AllIdle /\ created = BufferSize /\ cleaned = 0
  /\ Len(metrics_buffer) = 2
  /\ metrics_buffer[1].id > metrics_buffer[2].id
  /\ returned.some
  /\ Len(Elements(returned.val)) = 1

\* ---- HealthCheckManager
RegisteredNames == {registrations[i].k : i \in 1..Len(registrations)}
\* the function the latest register_check call gave for a name
LatestRegistered(name) ==
  LET last == CHOOSE i \in 1..Len(registrations) :
                /\ registrations[i].k = name
                /\ \A j \in (i + 1)..Len(registrations) : registrations[j].k # name
  IN  registrations[last].v
Keys(d) == {d[i].k : i \in 1..Len(d)}
EntriesOf(d, key) == {i \in 1..Len(d) : d[i].k = key}
EntryOf(d, key) == d[CHOOSE i \in 1..Len(d) : d[i].k = key].v
\* the observations the last run_all_checks appended, and those tagged check=name
Emitted == SubSeq(history, run_base + 1, Len(history))
EmittedFor(name) ==
  SelectSeq(Emitted, LAMBDA m : Len(m.tags) > 0 /\ m.tags[1] = [k |-> "check", v |-> name])
Names(ms) == [i \in 1..Len(ms) |-> ms[i].name]

\* C7: in the result of run_all_checks there is one entry per registered name;
\* every registered check was called exactly once; a check that raised has
\* healthy = false and its error message and makes overall_healthy false; a
\* check that returned has the healthy value it returned.
C7_FailingCheckIsIsolated ==
  health_result.some =>
    /\ Keys(health_result.val.checks) = RegisteredNames
    /\ Len(health_result.val.checks) = Cardinality(RegisteredNames)
    /\ \A n \in RegisteredNames :
         /\ Cardinality(EntriesOf(invoked, n)) = 1
         /\ IF CheckOutcome(LatestRegistered(n)).raises
            THEN /\ ~health_result.val.overall_healthy
                 /\ EntryOf(health_result.val.checks, n).healthy = FALSE
                 /\ "error" \in DOMAIN EntryOf(health_result.val.checks, n)
                 /\ EntryOf(health_result.val.checks, n).error =
                      CheckOutcome(LatestRegistered(n)).error
            ELSE EntryOf(health_result.val.checks, n).healthy =
                   CheckOutcome(LatestRegistered(n)).result.healthy

C7_Witness ==
  /\ health_result.some
  /\ custom_checks = <<[k |-> <<"f", "s">>, v |-> "always_fails"],
                       [k |-> <<"d", "b">>, v |-> "always_healthy"]>>
  /\ Len(health_result.val.checks) = 2
  /\ ~health_result.val.overall_healthy
  /\ EntryOf(health_result.val.checks, <<"d", "b">>).healthy
  /\ ~EntryOf(health_result.val.checks, <<"f", "s">>).healthy

\* C8: overall_healthy is the conjunction of the healthy fields of the entries
\* of the returned checks map.
C8_OverallIsConjunction ==
  health_result.some =>
    health_result.val.overall_healthy =
      (\A i \in 1..Len(health_result.val.checks) : health_result.val.checks[i].v.healthy)

C8_Witness ==
  /\ health_result.some
  /\ Len(health_result.val.checks) = 2
  /\ health_result.val.checks[1].v.healthy
  /\ "error" \notin DOMAIN health_result.val.checks[2].v
  /\ ~health_result.val.checks[2].v.healthy
  /\ ~health_result.val.overall_healthy

\* C9 (as claimed): run_all_checks appends, for every registered check, whether
\* it returned or raised, exactly health_check.<name>.duration and
\* health_check.<name>.status, the status being 1 if the check reported healthy
\* and 0 otherwise.
C9_TwoObservationsPerCheck ==
  health_result.some =>
    /\ Len(Emitted) = 2 * Len(custom_checks)
    /\ \A n \in Keys(custom_checks) :
         /\ Names(EmittedFor(n)) =
              <<HealthMetricName(n, StrDuration), HealthMetricName(n, StrStatus)>>
         /\ EmittedFor(n)[2].value =
              (IF EntryOf(health_result.val.checks, n).healthy THEN 1 ELSE 0)

\* C9 (amended): for a check that returned, exactly the duration and the status
\* observation are appended, the status being 1 if it reported healthy and 0
\* otherwise; for a check that raised, exactly one observation,
\* health_check.<name>.errors with value 1, and neither duration nor status.
C9_ObservationsPerOutcome ==
  health_result.some =>
    /\ \A i \in 1..Len(Emitted) : \E n \in Keys(custom_checks) :
         Emitted[i].tags[1] = [k |-> "check", v |-> n]
    /\ \A n \in Keys(custom_checks) :
         IF CheckOutcome(LatestRegistered(n)).raises
         THEN /\ Names(EmittedFor(n)) = <<HealthMetricName(n, StrErrors)>>
              /\ EmittedFor(n)[1].value = 1
         ELSE /\ Names(EmittedFor(n)) =
                   <<HealthMetricName(n, StrDuration), HealthMetricName(n, StrStatus)>>
              /\ EmittedFor(n)[2].value =
                   (IF EntryOf(health_result.val.checks, n).healthy THEN 1 ELSE 0)

C9_Witness ==
  /\ health_result.some
  /\ Len(custom_checks) = 2
  /\ Len(Emitted) = 3
  /\ CheckOutcome(custom_checks[1].v).raises
  /\ custom_checks[2].v = "always_unhealthy"
  /\ Emitted[3].value = 0

\* C10: after register_check(name, f) and then register_check(name, g),
\* run_all_checks calls g and not f for that name; it calls one function per
\* distinct registered name and returns one entry per distinct registered name.
C10_ReRegistrationReplaces ==
  health_result.some =>
    /\ Len(health_result.val.checks) = Cardinality(RegisteredNames)
    /\ Len(invoked) = Cardinality(RegisteredNames)
    /\ \A i \in 1..Len(invoked) : invoked[i].v = LatestRegistered(invoked[i].k)
    /\ \A n \in RegisteredNames : Cardinality(EntriesOf(invoked, n)) = 1

C10_Witness ==
  /\ health_result.some
  /\ \E i, j \in 1..Len(registrations) :
       /\ i < j
       /\ registrations[i].k = registrations[j].k
       /\ registrations[i].v # registrations[j].v
       /\ LatestRegistered(registrations[i].k) = registrations[j].v
  /\ Cardinality(RegisteredNames) = 2
  /\ Len(invoked) = 2

\* ---- server health probes
\* the last probe went over HTTP; its /health answer; what the probe produced
HttpProbed == probe.some /\ probe.val.server_name # Mcp
\* the answer is HTTP 200 with a JSON object whose status is 'healthy' or 'ok'
HealthyAnswer(r) ==
  r.kind = "response" /\ r.status_code = 200 /\ r.body = "object"
    /\ r.status \in {"healthy", "ok"}

\* C11 (as claimed): _http_health_check returns, for every outcome of the GET,
\* a ServerHealth with exactly the status the outcome calls for: 'healthy' for
\* HTTP 200 with a healthy body, 'unhealthy' for 200 with any other body and
\* for any other code, 'unreachable' with an error message for a network
\* failure; response_time is the time the call took.
C11_EveryOutcomeClassified ==
  HttpProbed =>
    /\ ~probe.val.result.raised
    /\ probe.val.result.health.val.status =
         (IF probe.val.response.kind = "raises" THEN "unreachable"
          ELSE IF HealthyAnswer(probe.val.response) THEN "healthy"
          ELSE "unhealthy")
    /\ probe.val.response.kind = "raises" => probe.val.result.health.val.error_message.some
    /\ probe.val.result.health.val.response_time = probe.val.response.seconds

\* C12 (as claimed): whatever /health answers, _check_server_health raises
\* nothing and stores a ServerHealth for the server; the stored status is
\* 'unhealthy' or 'unreachable' unless the answer is a healthy JSON body.
C12_ProbeNeverRaises ==
  HttpProbed =>
    /\ ~probe.val.raised
    /\ probe.val.server_name \in Keys(health_status)
    /\ ~HealthyAnswer(probe.val.response) =>
         EntryOf(health_status, probe.val.server_name).status \in {"unhealthy", "unreachable"}

\* ---- the collection loop
AliveThreads == {t \in ThreadIds : Alive(loop[t])}

\* C13: a collection thread ends only at the loop condition, having read
\* is_running as false, and only stop_collection clears is_running.  An
\* exception raised inside an iteration is caught: the thread abandons the
\* iteration (no cleanup, nothing stored by the failed probe), waits, and
\* returns to the loop condition, where a new iteration begins while
\* is_running is true.
C13_ExceptionsNeverEndTheLoop ==
  [][/\ (is_running /\ ~is_running') => StopCollection
     /\ \A t \in ThreadIds :
          /\ (Alive(loop[t]) /\ loop'[t].pc = "exited") =>
               (loop[t].pc = "while" /\ ~is_running)
          /\ (Alive(loop[t]) /\ loop[t].pc # "except" /\ loop'[t].pc = "except") =>
               /\ probe'.some /\ probe'.val.raised
               /\ loop'[t].caught = loop[t].caught + 1
               /\ loop'[t].cleanups = loop[t].cleanups
               /\ UNCHANGED <<metrics_buffer, health_status>>
          /\ (loop[t].pc = "except" /\ loop'[t] # loop[t]) => loop'[t].pc = "while"
          /\ (loop[t].pc = "while" /\ is_running /\ loop'[t] # loop[t]) =>
               (loop'[t].pc = "system" /\ loop'[t].iter = loop[t].iter + 1)]_vars

C13_Witness ==
  \E t \in ThreadIds :
    /\ loop[t].caught > 0
    /\ loop[t].iter > 1
    /\ loop[t].pc = "servers"
    /\ is_running

\* C14: while is_running is false no iteration begins; stop_collection does
\* not touch a collection thread, so what the thread is doing completes; and
\* a thread that is alive while is_running is false ends, unless
\* start_collection sets is_running again.
C14_StopEndsTheLoop ==
  /\ [][~is_running => iterations' = iterations]_vars
  /\ [][StopCollection => loop' = loop]_vars
  /\ \A t \in ThreadIds :
       (~is_running /\ Alive(loop[t])) ~> (~Alive(loop[t]) \/ is_running)

C14_Witness ==
  \E t \in ThreadIds :
    /\ ~is_running
    /\ loop[t].pc = "exited"
    /\ loop[t].iter = 1
    /\ loop[t].cleanups = 1
    /\ iterations = 1
    /\ ctl_pc = "idle"

\* C15 (as claimed): at most one thread is inside _collection_loop at any time.
C15_AtMostOneLoopThread == Cardinality(AliveThreads) <= 1

\* C16 (as claimed): every iteration of the loop calls _cleanup_old_metrics
\* exactly once before it ends.
C16_EveryIterationCleansUp ==
  [][\A t \in ThreadIds :
       (loop[t].pc \in {"sleep", "except"} /\ loop'[t].pc = "while") =>
         loop[t].cleanups = 1]_vars

\* ---- alerts
\* the appended observations whose last name segment has a threshold that the
\* value exceeds
OverThreshold ==
  SelectSeq(history,
            LAMBDA m : /\ LastSegment(m.name) \in Keys(alert_thresholds)
                       /\ m.value > EntryOf(alert_thresholds, LastSegment(m.name)))

\* C17 (as claimed): the ALERT warnings logged are, in order, one for each
\* appended observation whose last name segment is a key of alert_thresholds
\* and whose value is greater than that threshold, and no others.
C17_OneWarningPerExceedingValue ==
  /\ Len(alert_log) = Len(OverThreshold)
  /\ \A i \in 1..Len(alert_log) :
       /\ alert_log[i].name = OverThreshold[i].name
       /\ alert_log[i].value = OverThreshold[i].value

\* ---- the request middleware
\* the observations appended since the request in flight arrived
Observed == SubSeq(history, req.val.base + 1, Len(history))
Named(ms, name) == SelectSeq(ms, LAMBDA m : m.name = name)
\* _before_request ran, the view returned and _after_request has run
Measured ==
  /\ req.some
  /\ req.val.phase \in {"teardown", "done"}
  /\ req.val.g.start_time.some
  /\ req.val.response.some
\* the status class the claim gives for the codes served
ClassOf(status_code) ==
  CASE status_code = 200 -> <<"2", "x", "x">>
    [] status_code = 404 -> <<"4", "x", "x">>
    [] status_code = 500 -> <<"5", "x", "x">>
\* what _after_request appended is as C19 says
OneCountOneDuration ==
  LET endpoint == EndpointName(req.val.request)
      counts == Named(Observed, StrApi \o <<".">> \o endpoint \o <<".">> \o StrRequests)
      durations == Named(Observed, StrHttpRequestDuration)
  IN  /\ ~req.val.after_raised
      /\ Len(counts) = 1
      /\ counts[1].value = 1
      /\ Len(durations) = 1
      /\ durations[1].value = req.val.took
      /\ DictGet(durations[1].tags, "status_code") =
           Some(IntToStr(req.val.response.val.status_code))
      /\ DictGet(durations[1].tags, "status_class") =
           Some(ClassOf(req.val.response.val.status_code))
      /\ \A i \in 1..Len(Observed) :
           DictGet(Observed[i].tags, "status_class").some =>
             Observed[i].name = StrHttpRequestDuration
TimingHeadersSet ==
  /\ req.val.returned.some
  /\ DictGet(req.val.returned.val.headers, "X-Response-Time") =
       Some(FormatSeconds(req.val.took))
  /\ DictGet(req.val.returned.val.headers, "X-Request-ID") = req.val.g.request_id

\* C18: when g has no start_time, _after_request raises nothing, returns the
\* response it was given, and leaves the store, the alert log and the request
\* counters as they were.
C18_AfterRequestWithoutBefore ==
  [][(AfterRequest /\ ~req.val.g.start_time.some) =>
       /\ ~req'.val.after_raised
       /\ req'.val.returned = req.val.response
       /\ UNCHANGED <<metrics_buffer, history, created, alert_log, request_counts,
                      response_times, error_counts>>]_vars

C18_Witness ==
  /\ req.some
  /\ req.val.n = 2
  /\ req.val.phase = "teardown"
  /\ ~req.val.g.start_time.some
  /\ req.val.returned = req.val.response
  /\ Len(history) > 0
  /\ Len(request_counts) > 0

\* C19 (as claimed): after _before_request and a view that returned, with any
\* status code, _after_request has appended one api.<endpoint>.requests
\* observation and one duration observation tagged with the status code and
\* its class, and the response carries X-Response-Time, the duration, and
\* X-Request-ID, the id taken before dispatch.
C19_ObservationsAndHeaders ==
  Measured => (OneCountOneDuration /\ TimingHeadersSet)

\* C19 (amended): the observations are as claimed; the two headers are set,
\* X-Response-Time being the duration in seconds rounded to three decimals,
\* unless the middleware's config has add_timing_headers false, and then the
\* response is returned with the headers it had.
C19_HeadersWhenConfigured ==
  Measured =>
    /\ OneCountOneDuration
    /\ IF DictGetOr(mw_config, "add_timing_headers", TRUE) THEN TimingHeadersSet
       ELSE req.val.returned = req.val.response

C19_Witness ==
  /\ Measured
  /\ mw_config = <<>>
  /\ req.val.n = 2
  /\ req.val.response.val.status_code = 404
  /\ req.val.request.endpoint = None
  /\ req.val.took = 10027
  /\ DictGet(req.val.returned.val.headers, "X-Response-Time") =
       Some(<<"1", ".", "0", "0", "3">>)
  /\ Len(Observed) = 5

\* C20: once the view has raised and _handle_exception has run, an
\* http.exceptions.count observation tagged with the exception's type name
\* has been appended and that exception has been raised on to the framework;
\* after teardown there is also an http.errors.count observation with that tag.
C20_ExceptionCountedAndReraised ==
  (req.some /\ req.val.exception.some /\ req.val.phase \in {"teardown", "done"}) =>
    /\ req.val.reraised = req.val.exception
    /\ ~req.val.returned.some
    /\ \E i \in 1..Len(Observed) :
         /\ Observed[i].name = StrHttpExceptionsCount
         /\ Observed[i].value = 1
         /\ DictGet(Observed[i].tags, "error_type") = req.val.exception
    /\ req.val.phase = "done" =>
         \E i \in 1..Len(Observed) :
           /\ Observed[i].name = StrHttpErrorsCount
           /\ DictGet(Observed[i].tags, "error_type") = req.val.exception

C20_Witness ==
  /\ req.some
  /\ req.val.phase = "done"
  /\ req.val.exception = Some(<<"K", "e", "y", "E", "r", "r", "o", "r">>)
  /\ req.val.reraised = req.val.exception
  /\ Len(Observed) = 3
  /\ Observed[2].name = StrHttpExceptionsCount
  /\ Observed[3].name = StrHttpErrorsCount

\* the lines of a text: its pieces between line breaks
RECURSIVE SplitLines(_)
SplitLines(text) ==
  LET brk == {i \in 1..Len(text) : text[i] = "\n"}
  IN  IF brk = {} THEN <<text>>
      ELSE LET i == CHOOSE i \in brk : \A j \in brk : i <= j
           IN  <<SubSeq(text, 1, i - 1)>> \o SplitLines(SubSeq(text, i + 1, Len(text)))
StartingWith(lines, piece) ==
  {i \in 1..Len(lines) : IF Len(lines[i]) > 0 THEN lines[i][1] = piece ELSE FALSE}
NamesIn(buf) == {buf[i].name : i \in 1..Len(buf)}
Sanitized(name) == [i \in 1..Len(name) |-> IF name[i] \in {".", "-"} THEN "_" ELSE name[i]]
ReadIs(op) == IF read.some THEN read.val.op = op ELSE FALSE
PrometheusExported == IF ReadIs("export_metrics") THEN read.val.arg = "prometheus" ELSE FALSE
JsonExported == IF ReadIs("export_metrics") THEN read.val.arg = "json" ELSE FALSE

\* C21: the text export_metrics('prometheus') returns has exactly one line
\* starting with '# HELP', exactly one starting with '# TYPE', and besides
\* them exactly one line per distinct name in the buffer, each beginning with
\* notyyet_ and the name with '.' and '-' replaced by '_'; two lines for an
\* empty buffer.
C21_OneLinePerName ==
  PrometheusExported =>
    LET lines == SplitLines(read.val.result)
    IN  /\ Cardinality(StartingWith(lines, "# HELP")) = 1
        /\ Cardinality(StartingWith(lines, "# TYPE")) = 1
        /\ Len(lines) = 2 + Cardinality(NamesIn(metrics_buffer))
        /\ \A i \in 3..Len(lines) :
             \E name \in NamesIn(metrics_buffer) :
               /\ Len(lines[i]) > Len(name)
               /\ SubSeq(lines[i], 1, 1 + Len(name)) = <<"notyyet_">> \o Sanitized(name)

\* the index of the newest observation of each name, newest first
RECURSIVE Descending(_)
Descending(S) ==
  IF S = {} THEN <<>>
  ELSE LET m == CHOOSE m \in S : \A x \in S : x <= m IN <<m>> \o Descending(S \ {m})
LastIndexes(buf) ==
  {i \in 1..Len(buf) : \A j \in (i + 1)..Len(buf) : buf[j].name # buf[i].name}

\* C22: after the two preamble lines, the Prometheus export is the rendering
\* (sanitized name, labels, value) of the most recently inserted retained
\* observation of each name, and of no other observation.
C22_LatestValuePerName ==
  PrometheusExported =>
    read.val.result =
      JoinStr(<<<<"# HELP", " notyyet_system_metrics System metrics from Not-Yet platform">>,
                <<"# TYPE", " notyyet_system_metrics gauge">>>>
              \o [k \in 1..Cardinality(LastIndexes(metrics_buffer)) |->
                    PrometheusLine(metrics_buffer[Descending(LastIndexes(metrics_buffer))[k]])],
              <<"\n">>)

\* a Prometheus export of a full buffer, after an eviction, holding two
\* observations of one name with different values and labels
C22_Witness ==
  /\ PrometheusExported
  /\ created > BufferSize
  /\ Len(metrics_buffer) = BufferSize
  /\ metrics_buffer[1].name = metrics_buffer[Len(metrics_buffer)].name
  /\ metrics_buffer[1].value # metrics_buffer[Len(metrics_buffer)].value
  /\ Cardinality(NamesIn(metrics_buffer)) = 1

\* C23: when export_metrics('json') returns beside concurrent appends, its
\* 'metrics' array lists, in insertion order, exactly the observations that
\* were in metrics_buffer at the instant the array was built (the export's
\* locked section), which is the buffer of that instant, untouched by it.
C23_JsonMetricsAreTheBuffer ==
  /\ []((IF ReadIs("_export_json") THEN read.val.pc = "done" /\ ~read.val.raised ELSE FALSE)
        => /\ Len(read.val.result.metrics) = Len(read.val.at_lock)
           /\ \A i \in 1..Len(read.val.at_lock) :
                /\ read.val.result.metrics[i].name = read.val.at_lock[i].name
                /\ read.val.result.metrics[i].value = read.val.at_lock[i].value
                /\ read.val.result.metrics[i].tags = read.val.at_lock[i].tags
                /\ read.val.result.metrics[i].timestamp
                     = IsoFormat(read.val.at_lock[i].timestamp))
  /\ [][~read.some /\ read'.some
          => read'.val.at_lock = metrics_buffer /\ metrics_buffer' = metrics_buffer]_vars

\* a JSON export that returned two observations while the buffer went on
\* changing under it
C23_Witness ==
  /\ ReadIs("_export_json")
  /\ read.val.pc = "done"
  /\ ~read.val.raised
  /\ Len(read.val.at_lock) = BufferSize
  /\ metrics_buffer # read.val.at_lock
  /\ Len(health_status) > 0

\* the indexes of the observations of `name` in buf that satisfy Kept
Of(buf, name, Kept(_)) == {i \in 1..Len(buf) : buf[i].name = name /\ Kept(buf[i])}
RECURSIVE SumOver(_, _)
SumOver(buf, I) ==
  IF I = {} THEN 0
  ELSE LET i == CHOOSE i \in I : TRUE IN buf[i].value + SumOver(buf, I \ {i})
\* summary has one entry per name with an observation satisfying Kept, and
\* the entry's count, avg, min, max and latest are those of these observations
SummaryOver(summary, buf, Kept(_)) ==
  /\ \A i, j \in 1..Len(summary) : summary[i].k = summary[j].k => i = j
  /\ {summary[i].k : i \in 1..Len(summary)}
       = {name \in NamesIn(buf) : Of(buf, name, Kept) # {}}
  /\ \A s \in 1..Len(summary) :
       LET I == Of(buf, summary[s].k, Kept)
           e == summary[s].v
       IN  /\ e.count = Cardinality(I)
           /\ e.avg.den # 0
           /\ e.avg.num * Cardinality(I) = SumOver(buf, I) * e.avg.den
           /\ \E i \in I : buf[i].value = e.min
           /\ \E i \in I : buf[i].value = e.max
           /\ \A i \in I : e.min <= buf[i].value /\ buf[i].value <= e.max
           /\ e.latest = buf[CHOOSE i \in I : \A j \in I : j <= i].value
Retained(m) == TRUE
WithinSummaryMinutes(m) == m.timestamp * 60 + SummaryMinutes >= now * 60
\* five observations of one name, values 0, 10, 20, 30, 40, made now
FiveValues == [i \in 1..5 |-> Metric(<<"t">>, 10 * (i - 1), now, <<>>, i)]

\* C24 as stated: the summary, returned by get_summary_stats or embedded in
\* the JSON export, describes all the retained observations.
C24_SummaryOfRetained ==
  /\ ReadIs("get_summary_stats")
       => SummaryOver(read.val.result, metrics_buffer, Retained)
  /\ JsonExported => SummaryOver(read.val.result.summary, metrics_buffer, Retained)

\* C24, amended: the summary describes the retained observations that are at
\* most five minutes old; for 0, 10, 20, 30, 40 just appended under one name
\* it is count 5, min 0, max 40, avg 20, latest 40.
C24_SummaryOfRecent ==
  /\ ReadIs("get_summary_stats")
       => SummaryOver(read.val.result, metrics_buffer, WithinSummaryMinutes)
  /\ JsonExported
       => SummaryOver(read.val.result.summary, metrics_buffer, WithinSummaryMinutes)
  /\ \A summary \in {GetSummaryStatsAt(FiveValues, now)} :
       /\ Len(summary) = 1
       /\ summary[1].k = <<"t">>
       /\ summary[1].v.count = 5
       /\ summary[1].v.min = 0
       /\ summary[1].v.max = 40
       /\ summary[1].v.latest = 40
       /\ summary[1].v.avg.num = 20 * summary[1].v.avg.den

\* a summary of a buffer that retains an observation older than an hour next
\* to a recent one of the same name with another value
C24_Witness ==
  /\ ReadIs("get_summary_stats")
  /\ Len(metrics_buffer) = 2
  /\ metrics_buffer[1].timestamp < now
  /\ metrics_buffer[2].timestamp = now
  /\ metrics_buffer[1].name = metrics_buffer[2].name
  /\ metrics_buffer[1].value # metrics_buffer[2].value
  /\ Len(read.val.result) = 1
  /\ read.val.result[1].v.count = 1
  /\ read.val.result[1].v.latest = metrics_buffer[2].value

UnsupportedExport ==
  IF ReadIs("export_metrics") THEN read.val.arg \notin {"json", "prometheus"} ELSE FALSE
UnsupportedRequest ==
  IF ReadIs("metrics_endpoint")
  THEN IF read.val.arg.some THEN read.val.arg.val \notin {"json", "prometheus"} ELSE FALSE
  ELSE FALSE

\* C25: export_metrics with a format other than 'json' and 'prometheus'
\* raises ValueError, and neither it nor a /metrics request with such a
\* format changes metrics_buffer or health_status; the request is answered
\* with an error response (status 500, a body with 'error'), not with an
\* exception, and the /metrics request that follows is answered as usual.
C25_UnsupportedFormat ==
  /\ [](UnsupportedExport => read.val.raised /\ read.val.exception = "ValueError")
  /\ [](UnsupportedRequest =>
          /\ ~read.val.raised
          /\ read.val.result.status = 500
          /\ DOMAIN read.val.result.body = {"error"})
  /\ [][(UnsupportedRequest
          /\ (IF ReadIs("metrics_endpoint")' THEN ~read'.val.arg.some ELSE FALSE))
          => (read'.val.result.status = 200
              /\ read'.val.result.body = ExportPrometheus(metrics_buffer))]_vars
  /\ [][(UnsupportedExport \/ UnsupportedRequest)'
          => (metrics_buffer' = metrics_buffer /\ health_status' = health_status)]_vars

\* a /metrics request for an unsupported format, answered while the buffer
\* is full
C25_Witness ==
  /\ UnsupportedRequest
  /\ read.val.result.status = 500
  /\ Len(metrics_buffer) = BufferSize

ReadPaths ==
  {"get_health_status", "get_summary_stats", "export_metrics", "_get_system_overview",
   "_get_metrics_data", "_get_health_data", "_get_alerts_data"}

\* C27: get_metrics, get_health_status, get_summary_stats, export_metrics
\* and the dashboard's _get_system_overview, _get_metrics_data,
\* _get_health_data and _get_alerts_data, called any number of times in any
\* order, change neither metrics_buffer nor health_status.
C27_ReadPathsLeaveTheStore ==
  [][((IF read'.some THEN read'.val.op \in ReadPaths ELSE FALSE) \/ returned'.some)
       => (metrics_buffer' = metrics_buffer /\ health_status' = health_status)]_vars

\* the alerts view taken of a full buffer and a stored health record, after
\* other reads
C27_Witness ==
  /\ ReadIs("_get_alerts_data")
  /\ Len(metrics_buffer) = BufferSize
  /\ Len(health_status) > 0
  /\ read.val.result.count > 0

\* C28 (as claimed): _get_servers_data raises nothing and returns one entry
\* for every configured server: the JSON body of a 200 answer, and an entry
\* with status 'unreachable' and the error for any failure of the call.
C28_ServersDataNeverRaises ==
  ReadIs("_get_servers_data") =>
    /\ ~read.val.raised
    /\ Keys(read.val.result) = {DashboardServers[i] : i \in 1..Len(DashboardServers)}
    /\ \A i \in 1..Len(DashboardServers) :
         IF read.val.arg[i].kind = "response" /\ read.val.arg[i].status_code = HttpOk
              /\ read.val.arg[i].body = "object"
         THEN "json" \in DOMAIN EntryOf(read.val.result, DashboardServers[i])
         ELSE /\ EntryOf(read.val.result, DashboardServers[i]).status = "unreachable"
              /\ "error" \in DOMAIN EntryOf(read.val.result, DashboardServers[i])

\* stop_collection has returned and the collection thread has ended
ShutDown ==
  /\ ~is_running
  /\ ctl_pc = "idle"
  /\ IF collection_thread = 0 THEN FALSE ELSE loop[collection_thread].pc = "exited"

\* C29 (as claimed): add_metric called after stop_collection leaves
\* metrics_buffer as it was.
C29_WriteAfterStopIsNoOp ==
  [][(ShutDown /\ created' = created + 1 /\ loop' = loop)
       => metrics_buffer' = metrics_buffer]_vars

\* C30 (as claimed): health_status has at most one record per server name;
\* no step removes a key; and after every probe of a server, the first
\* included, health_status holds a record under that server's name while the
\* records of the other names are as they were.
C30_RecordPerProbedName ==
  /\ [](\A i, j \in 1..Len(health_status) :
          health_status[i].k = health_status[j].k => i = j)
  /\ [][Keys(health_status) \subseteq Keys(health_status')]_vars
  /\ [][probes' = probes + 1 =>
          /\ probe'.val.server_name \in Keys(health_status')
          /\ \A name \in Keys(health_status) \ {probe'.val.server_name} :
               EntryOf(health_status', name) = EntryOf(health_status, name)]_vars

\* C31 (as claimed): every _check_server_health call appends exactly two
\* observations, server.<name>.health and server.<name>.response_time; the
\* first is 1 exactly if the record the call stored for the name has status
\* 'healthy' and 0 otherwise, the second is the record's response_time.
C31_TwoObservationsPerProbe ==
  [][probes' = probes + 1 =>
       /\ Len(history') = Len(history) + 2
       /\ probe'.val.server_name \in Keys(health_status')
       /\ history'[Len(history) + 1].name = ServerMetricName(probe'.val.server_name, StrHealth)
       /\ history'[Len(history) + 1].value =
            (IF EntryOf(health_status', probe'.val.server_name).status = "healthy"
             THEN 1 ELSE 0)
       /\ history'[Len(history) + 2].name =
            ServerMetricName(probe'.val.server_name, StrResponseTime)
       /\ history'[Len(history) + 2].value =
            EntryOf(health_status', probe'.val.server_name).response_time]_vars

RECURSIVE ThreadsStarted(_)
ThreadsStarted(ins) == IF ins = <<>> THEN 0 ELSE ins[1].threads + ThreadsStarted(Tail(ins))

\* C32 (as claimed): whatever the interleaving of the callers' first calls of
\* get_metrics_collector, one MetricsCollector is constructed, one collection
\* thread is started, and the calls that have returned all returned the same
\* object.
C32_OneCollectorOneThread ==
  /\ Len(instances) <= 1
  /\ ThreadsStarted(instances) <= 1
  /\ \A t, u \in Callers :
       (calls[t].pc = "done" /\ calls[u].pc = "done") => calls[t].ret = calls[u].ret

\* C39 (as claimed): an observation a component writes is, right after the
\* write, the newest one in the buffer of the collector the global names,
\* also when init_metrics_collector has replaced the global since the
\* component was constructed; and no collector but the global one is running.
C39_WritesReachTheGlobalCollector ==
  /\ [][\A comp \in Components :
          ComponentWrite(comp) =>
            /\ metrics_collector' # 0
            /\ Len(instances'[metrics_collector'].buffer) > 0
            /\ instances'[metrics_collector'].buffer[Len(instances'[metrics_collector'].buffer)].id
                 = TotalAppended(instances')]_vars
  /\ [](\A c \in 1..Len(instances) : instances[c].is_running => c = metrics_collector)

ToolCalled == ReadIs("monitor_tool_execution")
\* what the call in `read` appended
ToolAppended == SubSeq(history, read.val.before + 1, Len(history))
ToolTag(metric, key) == DictGet(metric.tags, key)
\* the result is a dict with 'success' true or 'return_code' 0
ToolSucceeded(outcome) ==
  IF outcome.kind = "dict" THEN outcome.success = Some(TRUE) \/ outcome.return_code = Some(0)
  ELSE FALSE
\* the call appended <tool>.executions.started and then execution_time and
\* `second`, both tagged with `tags`
ToolStartedThen(new, second, tags) ==
  /\ Len(new) >= 3
  /\ new[1].name = ToolMetricName(read.val.arg, StrExecutionsStarted)
  /\ new[2].name = ToolMetricName(read.val.arg, StrExecutionTime)
  /\ new[2].value = read.val.outcome.seconds
  /\ new[3].name = ToolMetricName(read.val.arg, second)
  /\ \A i \in {2, 3} : \A j \in 1..Len(tags) : ToolTag(new[i], tags[j].k) = Some(tags[j].v)

\* C33 as stated: a call of a wrapped function appends
\* tool.<tool>.executions.started, and then exactly execution_time and
\* executions.completed, tagged 'success' or 'failed', when the function
\* returns (the result is handed back), or exactly execution_time and errors,
\* tagged with the exception type, when it raises (the exception is re-raised).
C33_StartedThenOneOutcome ==
  ToolCalled =>
    /\ Len(ToolAppended) = 3
    /\ IF read.val.outcome.kind \in {"Exception", "BaseException"}
       THEN /\ ToolStartedThen(ToolAppended, StrErrors,
                               <<[k |-> "error_type", v |-> read.val.outcome.error_type]>>)
            /\ read.val.raised
            /\ read.val.exception = read.val.outcome.error_type
       ELSE /\ ToolStartedThen(ToolAppended, StrExecutionsCompleted,
                               <<[k |-> "status",
                                  v |-> IF ToolSucceeded(read.val.outcome) THEN StrSuccess
                                        ELSE StrFailed]>>)
            /\ ~read.val.raised
            /\ read.val.result = read.val.outcome

\* C33, amended: as stated for a function that returns or raises an
\* Exception, with one more observation, tool.<tool>.timeouts, after
\* executions.completed when the result is a dict whose 'timed_out' is true;
\* when the function raises a BaseException that is not an Exception, only
\* executions.started is appended and the exception propagates.
C33_StartedThenOutcome ==
  ToolCalled =>
    IF read.val.outcome.kind = "BaseException"
    THEN /\ Len(ToolAppended) = 1
         /\ ToolAppended[1].name = ToolMetricName(read.val.arg, StrExecutionsStarted)
         /\ read.val.raised
         /\ read.val.exception = read.val.outcome.error_type
    ELSE IF read.val.outcome.kind = "Exception"
    THEN /\ Len(ToolAppended) = 3
         /\ ToolStartedThen(ToolAppended, StrErrors,
                            <<[k |-> "error_type", v |-> read.val.outcome.error_type]>>)
         /\ read.val.raised
         /\ read.val.exception = read.val.outcome.error_type
    ELSE /\ ToolStartedThen(ToolAppended, StrExecutionsCompleted,
                            <<[k |-> "status",
                               v |-> IF ToolSucceeded(read.val.outcome) THEN StrSuccess
                                     ELSE StrFailed]>>)
         /\ IF read.val.outcome.timed_out = Some(TRUE)
            THEN /\ Len(ToolAppended) = 4
                 /\ ToolAppended[4].name = ToolMetricName(read.val.arg, StrTimeouts)
            ELSE Len(ToolAppended) = 3
         /\ ~read.val.raised
         /\ read.val.result = read.val.outcome

\* a call whose function returned a failed, timed-out result with return
\* code 0: tagged 'success', with a timeouts observation
C33_Witness ==
  /\ ToolCalled
  /\ read.val.outcome.kind = "dict"
  /\ read.val.outcome.success = Some(FALSE)
  /\ read.val.outcome.return_code = Some(0)
  /\ read.val.outcome.timed_out = Some(TRUE)
  /\ Len(ToolAppended) = 4
  /\ ToolTag(ToolAppended[3], "status") = Some(StrSuccess)

\* C34 (as claimed): in the overview, active_servers is at most
\* total_servers, and system_health is 'healthy' only if every server the
\* dashboard is configured with has a health record with status 'healthy'.
C34_OverviewCountsConfiguredServers ==
  ReadIs("_get_system_overview") =>
    /\ read.val.result.active_servers <= read.val.result.total_servers
    /\ read.val.result.system_health = "healthy" =>
         \A i \in 1..Len(DashboardServers) :
           IF DashboardServers[i] \in Keys(health_status)
           THEN EntryOf(health_status, DashboardServers[i]).status = "healthy"
           ELSE FALSE

\* ---- disabled servers
DisabledServers == {servers[i].k : i \in {j \in 1..Len(servers) : ~servers[j].v.enabled}}
ObservedNames == {history[i].name : i \in 1..Len(history)}

\* C38 (as claimed): a server whose 'enabled' flag is false is never probed:
\* it has no entry in health_status and no server.<name>.health or
\* server.<name>.response_time observation is ever appended; and each pass of
\* _collect_server_health goes through the configured servers in order, from
\* the first to the last, probing every enabled one once.
C38_EnabledServersProbedInOrder ==
  [][\A t \in ThreadIds :
       /\ \A name \in DisabledServers :
            /\ name \notin Keys(health_status')
            /\ ServerMetricName(name, StrHealth) \notin ObservedNames'
            /\ ServerMetricName(name, StrResponseTime) \notin ObservedNames'
       /\ (loop[t].pc = "system" /\ loop'[t] # loop[t]) =>
            (loop'[t].pc = "servers" /\ loop'[t].idx = 1)
       /\ (loop[t].pc = "servers" /\ loop'[t] # loop[t]) =>
            IF loop[t].idx > Len(servers)
            THEN loop'[t].pc = "cleanup"
            ELSE /\ loop'[t].pc = "servers"
                 /\ loop'[t].idx = loop[t].idx + 1
                 /\ IF servers[loop[t].idx].v.enabled
                    THEN /\ probe'.some
                         /\ probe'.val.server_name = servers[loop[t].idx].k
                         /\ probe'.val.before = Len(history)
                    ELSE probe' = probe]_vars

\* ---- the lock
Holds(t) == lock = t
InCall(t) == ops[t].op # "idle"
SharedAccess(t) == InCall(t) /\ CurrentStep(ops[t]).kind \in {"read", "write"}

\* C35 (as claimed): a thread that is about to read or write metrics_buffer
\* or health_status inside a method of the collector holds self.lock, so two
\* threads are never at accesses of the same structure together.
C35_SharedAccessUnderLock ==
  /\ \A t \in LockThreads : SharedAccess(t) => Holds(t)
  /\ \A t, u \in LockThreads :
       (t # u /\ SharedAccess(t) /\ SharedAccess(u)
          /\ CurrentStep(ops[u]).kind = "write") =>
         CurrentStep(ops[t]).res # CurrentStep(ops[u]).res

\* C37: a thread that holds self.lock never stands before another
\* acquisition of it nor before a blocking call; a thread that is in no
\* method does not hold the lock; and, with every runnable thread scheduled,
\* every call completes and every acquisition is followed by its release.
C37_NoNestedLockAllComplete ==
  /\ [](\A t \in LockThreads :
          /\ Holds(t) => (InCall(t) /\ CurrentStep(ops[t]).kind \notin {"acquire", "block"})
          /\ ~InCall(t) => ~Holds(t))
  /\ \A t \in LockThreads : InCall(t) ~> ~InCall(t)
  /\ \A t \in LockThreads : Holds(t) ~> ~Holds(t)

\* one thread holds the lock while another waits for it, both in their
\* second call
C37_Witness ==
  \E t, u \in LockThreads :
    /\ t # u
    /\ Holds(t)
    /\ InCall(u) /\ CurrentStep(ops[u]).kind = "acquire"
    /\ ops[t].calls = MaxCalls /\ ops[u].calls = MaxCalls

\* ---- record_request, by threads
RecordedFor(endpoint) == {w \in Writers : rr[w].pc = "done" /\ rr[w].endpoint = endpoint}

\* C36 (as claimed): when the concurrent record_request calls have returned,
\* request_counts[endpoint] is the number of calls for the endpoint,
\* response_times[endpoint] has one entry per call, and error_counts[endpoint]
\* is the number of those calls with a status_code of 400 and above.
C36_NoLostRequestCount ==
  (\A w \in Writers : rr[w].pc = "done") =>
    \A endpoint \in RecordEndpoints :
      /\ DictGetOr(request_counts, endpoint, 0) = Cardinality(RecordedFor(endpoint))
      /\ Len(DictGetOr(response_times, endpoint, <<>>)) = Cardinality(RecordedFor(endpoint))
      /\ DictGetOr(error_counts, endpoint, 0) =
           Cardinality({w \in RecordedFor(endpoint) : rr[w].status_code >= 400})

====
